---- MODULE Spec2Model ----
(***************************************************************************)
(* A model of the retrieval-to-validated-output pipeline of AI-Friday:     *)
(* src/src/agent.py (RAGAgent), src/src/vectorstore.py                     *)
(* (retrieve_documents), src/src/prompt_library.py (templates),            *)
(* src/src/schemas.py (validate_output), src/src/main.py (main) and        *)
(* src/src/csv_processor.py (CSV load and export).                         *)
(*                                                                         *)
(* Python strings that the code slices, searches or concatenates are       *)
(* sequences of atoms (an atom stands for one character or one opaque run  *)
(* of characters; the atom "'" stands for the backquote character).        *)
(* Python values that may be None are tagged records.                      *)
(***************************************************************************)
EXTENDS Naturals, Integers, Sequences, FiniteSets, TLC

(***************************************************************************)
(* Python / JSON values                                                    *)
(***************************************************************************)
None == [t |-> "None"]
PyStr(x) == [t |-> "str", x |-> x]
JNum(n) == [t |-> "num", n |-> n]
JList(l) == [t |-> "list", l |-> l]
JDict(m) == [t |-> "dict", m |-> m]
JBool(b) == [t |-> "bool", b |-> b]

\* length of the content preview kept in context_used
PREVIEW_LEN == 200

Min(a, b) == IF a <= b THEN a ELSE b
Max(a, b) == IF a >= b THEN a ELSE b

(***************************************************************************)
(* str operations used by the pipeline                                     *)
(***************************************************************************)
IsSpace(a) == a \in {" ", "\n"}

RECURSIVE LStrip(_)
LStrip(s) == IF s # <<>> /\ IsSpace(Head(s)) THEN LStrip(Tail(s)) ELSE s

RECURSIVE RStrip(_)
RStrip(s) ==
    IF s # <<>> /\ IsSpace(s[Len(s)]) THEN RStrip(SubSeq(s, 1, Len(s) - 1)) ELSE s

\* str.strip()
Strip(s) == RStrip(LStrip(s))

\* str.startswith(p)
StartsWith(s, p) == Len(s) >= Len(p) /\ SubSeq(s, 1, Len(p)) = p

\* s[a:-b] for a, b > 0 (Python slice: start clamped to len, stop to 0)
SliceFromTo(s, a, b) ==
    LET start == Min(a, Len(s))
        stop == Max(Len(s) - b, 0)
    IN IF start >= stop THEN <<>> ELSE SubSeq(s, start + 1, stop)

\* s[:n]
Prefix(s, n) == SubSeq(s, 1, Min(n, Len(s)))

\* sep.join(parts)
RECURSIVE Join(_, _)
Join(parts, sep) ==
    IF parts = <<>> THEN <<>>
    ELSE IF Len(parts) = 1 THEN parts[1]
    ELSE parts[1] \o sep \o Join(Tail(parts), sep)

\* first index i >= from with s[i..] starting with old, 0 when there is none
RECURSIVE Find(_, _, _)
Find(s, old, from) ==
    IF from + Len(old) - 1 > Len(s) THEN 0
    ELSE IF SubSeq(s, from, from + Len(old) - 1) = old THEN from
    ELSE Find(s, old, from + 1)

\* str.replace(old, new), old non-empty: every non-overlapping occurrence
RECURSIVE Replace(_, _, _)
Replace(s, old, new) ==
    LET i == Find(s, old, 1)
    IN IF i = 0 THEN s
       ELSE SubSeq(s, 1, i - 1) \o new
            \o Replace(SubSeq(s, i + Len(old), Len(s)), old, new)

\* old in s
Contains(s, old) == Find(s, old, 1) # 0

(***************************************************************************)
(* json.loads over the atoms for braces, brackets, comma, colon, quote,    *)
(* backslash, null, true, false, 0 and 1; every other atom is a run of     *)
(* ordinary characters.  A string literal is quote, atoms, quote (a raw    *)
(* newline inside it is a control character and does not decode).  A       *)
(* parse result is [ok, val, pos]: pos is the index after the value.       *)
(***************************************************************************)
Fail == [ok |-> FALSE, val |-> None, pos |-> 0]
Good(v, p) == [ok |-> TRUE, val |-> v, pos |-> p]

RECURSIVE SkipWs(_, _)
SkipWs(s, i) == IF i <= Len(s) /\ IsSpace(s[i]) THEN SkipWs(s, i + 1) ELSE i

\* the characters of a string literal from s[i] up to its closing quote, acc
\* holding the characters decoded so far: a backslash escapes a quote, a
\* backslash or (as the letter n) a newline
RECURSIVE StringBody(_, _, _)
StringBody(s, i, acc) ==
    IF i > Len(s) \/ s[i] = "\n" THEN Fail
    ELSE IF s[i] = "\"" THEN Good(acc, i + 1)
    ELSE IF s[i] = "\\" THEN
        IF i + 1 > Len(s) THEN Fail
        ELSE IF s[i + 1] \in {"\"", "\\"}
             THEN StringBody(s, i + 2, Append(acc, s[i + 1]))
        ELSE IF s[i + 1] = "n" THEN StringBody(s, i + 2, Append(acc, "\n"))
        ELSE Fail
    ELSE StringBody(s, i + 1, Append(acc, s[i]))

\* a string literal at s[i]: its content, and the index after the closing quote
ParseString(s, i) ==
    IF i > Len(s) \/ s[i] # "\"" THEN Fail ELSE StringBody(s, i + 1, <<>>)

\* dict lookups: a dict is a sequence of [k, v] pairs with distinct keys
Has(m, k) == \E j \in 1..Len(m) : m[j].k = k
Get(m, k) == m[CHOOSE j \in 1..Len(m) : m[j].k = k].v

\* dict semantics of repeated keys: the first position, the last value
DictPut(m, k, v) ==
    IF Has(m, k)
    THEN [j \in 1..Len(m) |-> IF m[j].k = k THEN [k |-> k, v |-> v] ELSE m[j]]
    ELSE Append(m, [k |-> k, v |-> v])

RECURSIVE ParseValue(_, _)
RECURSIVE ParseElems(_, _, _)
RECURSIVE ParseMembers(_, _, _)

\* s[i] starts a JSON value (leading whitespace already skipped)
ParseValue(s, i) ==
    IF i > Len(s) THEN Fail
    ELSE IF s[i] = "null" THEN Good(None, i + 1)
    ELSE IF s[i] = "0" THEN Good(JNum(0), i + 1)
    ELSE IF s[i] = "1" THEN Good(JNum(1), i + 1)
    ELSE IF s[i] = "true" THEN Good(JBool(TRUE), i + 1)
    ELSE IF s[i] = "false" THEN Good(JBool(FALSE), i + 1)
    ELSE IF s[i] = "\"" THEN
        LET r == ParseString(s, i)
        IN IF r.ok THEN Good(PyStr(r.val), r.pos) ELSE Fail
    ELSE IF s[i] = "[" THEN
        LET j == SkipWs(s, i + 1)
        IN IF j <= Len(s) /\ s[j] = "]" THEN Good(JList(<<>>), j + 1)
           ELSE ParseElems(s, j, <<>>)
    ELSE IF s[i] = "{" THEN
        LET j == SkipWs(s, i + 1)
        IN IF j <= Len(s) /\ s[j] = "}" THEN Good(JDict(<<>>), j + 1)
           ELSE ParseMembers(s, j, <<>>)
    ELSE Fail

\* elements of a list from s[i], acc holds the elements read so far
ParseElems(s, i, acc) ==
    LET r == ParseValue(s, i)
    IN IF ~r.ok THEN Fail
       ELSE LET j == SkipWs(s, r.pos)
            IN IF j > Len(s) THEN Fail
               ELSE IF s[j] = "]" THEN Good(JList(Append(acc, r.val)), j + 1)
               ELSE IF s[j] = "," THEN
                   ParseElems(s, SkipWs(s, j + 1), Append(acc, r.val))
               ELSE Fail

\* members of an object from s[i], acc holds the pairs read so far
ParseMembers(s, i, acc) ==
    LET k == ParseString(s, i)
    IN IF ~k.ok THEN Fail
       ELSE LET c == SkipWs(s, k.pos)
            IN IF c > Len(s) \/ s[c] # ":" THEN Fail
               ELSE LET r == ParseValue(s, SkipWs(s, c + 1))
                    IN IF ~r.ok THEN Fail
                       ELSE LET j == SkipWs(s, r.pos)
                                m == DictPut(acc, k.val, r.val)
                            IN IF j > Len(s) THEN Fail
                               ELSE IF s[j] = "}" THEN Good(JDict(m), j + 1)
                               ELSE IF s[j] = "," THEN
                                   ParseMembers(s, SkipWs(s, j + 1), m)
                               ELSE Fail

\* json.loads(s): ok = FALSE stands for json.JSONDecodeError
json_loads(s) ==
    LET r == ParseValue(s, SkipWs(s, 1))
    IN IF r.ok /\ SkipWs(s, r.pos) > Len(s) THEN r ELSE Fail

\* the escapes json.dumps writes inside a string literal
RECURSIVE Escaped(_)
Escaped(x) ==
    IF x = <<>> THEN <<>>
    ELSE (IF Head(x) \in {"\"", "\\"} THEN <<"\\", Head(x)>>
          ELSE IF Head(x) = "\n" THEN <<"\\", "n">>
          ELSE <<Head(x)>>) \o Escaped(Tail(x))

\* json.dumps(v) with the default separators ", " and ": "
RECURSIVE json_dumps(_)
RECURSIVE DumpElems(_)
RECURSIVE DumpMembers(_)
json_dumps(v) ==
    IF v.t = "None" THEN <<"null">>
    ELSE IF v.t = "num" THEN (IF v.n = 0 THEN <<"0">> ELSE <<"1">>)
    ELSE IF v.t = "bool" THEN (IF v.b THEN <<"true">> ELSE <<"false">>)
    ELSE IF v.t = "str" THEN <<"\"">> \o Escaped(v.x) \o <<"\"">>
    ELSE IF v.t = "list" THEN <<"[">> \o DumpElems(v.l) \o <<"]">>
    ELSE <<"{">> \o DumpMembers(v.m) \o <<"}">>

DumpElems(l) ==
    IF l = <<>> THEN <<>>
    ELSE IF Len(l) = 1 THEN json_dumps(l[1])
    ELSE json_dumps(l[1]) \o <<",", " ">> \o DumpElems(Tail(l))

DumpMembers(m) ==
    IF m = <<>> THEN <<>>
    ELSE LET kv == <<"\"">> \o Escaped(m[1].k) \o <<"\"", ":", " ">>
                   \o json_dumps(m[1].v)
         IN IF Len(m) = 1 THEN kv ELSE kv \o <<",", " ">> \o DumpMembers(Tail(m))

(***************************************************************************)
(* prompt_library.py.  A template is written as the source text of its     *)
(* f-string: brace atoms, the name of an interpolated expression between   *)
(* single braces, and atoms standing for runs of template text.            *)
(***************************************************************************)
best_practices_header == <<"You are a precise, domain-aware assistant ...">>

\* the value of the expression interpolated by a template's f-string
EvalExpr(e) == IF e = "best_practices_header()" THEN best_practices_header ELSE <<e>>

\* rendering of an f-string: a doubled brace gives one brace, a single brace
\* pair interpolates the expression between them
RECURSIVE FString(_)
FString(src) ==
    IF src = <<>> THEN <<>>
    ELSE IF Len(src) >= 2 /\ src[1] = "{" /\ src[2] = "{"
         THEN <<"{">> \o FString(SubSeq(src, 3, Len(src)))
    ELSE IF Len(src) >= 2 /\ src[1] = "}" /\ src[2] = "}"
         THEN <<"}">> \o FString(SubSeq(src, 3, Len(src)))
    ELSE IF Len(src) >= 3 /\ src[1] = "{" /\ src[3] = "}"
         THEN EvalExpr(src[2]) \o FString(SubSeq(src, 4, Len(src)))
    ELSE <<src[1]>> \o FString(Tail(src))

Header == <<"{", "best_practices_header()", "}">>

schema_generic_extraction ==
    FString(Header \o <<"TASK: Extract structured entities/facts",
        "OUTPUT SCHEMA", "{", "{", "entities", "[", "{", "{", "entity",
        "}", "}", "]", "}", "}", "CONSTRAINTS">>)

schema_classification ==
    FString(Header \o <<"TASK: Classify input text",
        "OUTPUT SCHEMA", "{", "{", "primary_category", "{", "{",
        "category_name", "}", "}", "}", "}", "CONSTRAINTS">>)

schema_qna ==
    FString(Header \o <<"TASK: Answer a specific question",
        "OUTPUT SCHEMA", "{", "{", "answer", "}", "}", "CONSTRAINTS">>)

schema_summarization ==
    FString(Header \o <<"TASK: Create a concise summary",
        "OUTPUT SCHEMA", "{", "{", "summary", "}", "}", "CONSTRAINTS">>)

schema_action_plan ==
    FString(Header \o <<"TASK: Generate a structured action plan",
        "OUTPUT SCHEMA", "{", "{", "objective", "[", "{", "{", "step",
        "}", "}", "]", "}", "}", "CONSTRAINTS">>)

rag_prompt ==
    FString(Header \o <<"TASK: Answer the user's query using the context",
        "CONTEXT:", "\n", "{", "{", "context", "}", "}", "\n",
        "SCHEMA", "{", "{", "answer", "}", "}", "CONSTRAINTS">>)

\* list_available_schemas()
list_available_schemas ==
    << <<"generic_extraction">>, <<"classification">>, <<"qna">>,
       <<"summarization">>, <<"action_plan">>, <<"rag">> >>

\* the keys of the templates dict of get_prompt_template
TemplateNames ==
    {PyStr(<<"generic_extraction">>), PyStr(<<"classification">>),
     PyStr(<<"qna">>), PyStr(<<"summarization">>), PyStr(<<"action_plan">>),
     PyStr(<<"rag">>)}

\* get_prompt_template(schema_type): ok = FALSE stands for the ValueError
get_prompt_template(schema_type) ==
    IF schema_type \notin TemplateNames
    THEN [ok |-> FALSE, val |-> <<>>,
          err |-> PyStr(<<"Unknown schema type: ">>
                        \o (IF schema_type = None THEN <<"None">> ELSE schema_type.x)
                        \o <<". Available: [...]">>)]
    ELSE [ok |-> TRUE, err |-> None,
          val |-> CASE schema_type.x = <<"generic_extraction">> -> schema_generic_extraction
                    [] schema_type.x = <<"classification">> -> schema_classification
                    [] schema_type.x = <<"qna">> -> schema_qna
                    [] schema_type.x = <<"summarization">> -> schema_summarization
                    [] schema_type.x = <<"action_plan">> -> schema_action_plan
                    [] schema_type.x = <<"rag">> -> rag_prompt]

(***************************************************************************)
(* schemas.py.  A pydantic model is the sequence of its fields             *)
(* [k, ty, req]: name, declared type, and whether it has no default.       *)
(***************************************************************************)
Fld(k, ty, req) == [k |-> <<k>>, ty |-> ty, req |-> req]

Entity ==
    << Fld("value", "str", TRUE), Fld("type", "str", TRUE),
       Fld("confidence", "level", TRUE), Fld("source_snippet", "optstr", FALSE) >>

GenericExtractionOutput ==
    << Fld("entities", "listEntity", TRUE), Fld("extraction_summary", "str", TRUE),
       Fld("notes", "optstr", FALSE) >>

ClassificationOutput ==
    << Fld("primary_category", "str", TRUE), Fld("confidence_primary", "level", TRUE),
       Fld("secondary_categories", "liststr", FALSE),
       Fld("confidence_scores", "dictfloat", TRUE), Fld("reasoning", "str", TRUE),
       Fld("uncertainty_notes", "optstr", FALSE) >>

QnAOutput ==
    << Fld("answer", "str", TRUE), Fld("confidence", "level", TRUE),
       Fld("source_evidence", "liststr", FALSE), Fld("source_documents", "liststr", FALSE),
       Fld("answer_type", "answer_type", TRUE),
       Fld("follow_up_questions", "liststr", FALSE), Fld("limitations", "optstr", FALSE) >>

SummarizationOutput ==
    << Fld("summary", "str", TRUE), Fld("key_points", "liststr", TRUE),
       Fld("entities_mentioned", "liststr", FALSE), Fld("topics", "liststr", FALSE),
       Fld("tone", "tone", TRUE), Fld("compression_ratio", "float", TRUE),
       Fld("completeness", "level", TRUE) >>

ActionStep ==
    << Fld("step_number", "int", TRUE), Fld("action", "str", TRUE),
       Fld("details", "str", TRUE), Fld("time_estimate", "str", TRUE),
       Fld("dependencies", "listint", FALSE), Fld("success_criteria", "str", TRUE) >>

ActionPlanOutput ==
    << Fld("objective", "str", TRUE), Fld("steps", "listStep", TRUE),
       Fld("total_duration", "str", TRUE), Fld("risks", "liststr", FALSE),
       Fld("success_rate", "level", TRUE) >>

RAGOutput ==
    << Fld("answer", "str", TRUE), Fld("confidence", "level", TRUE),
       Fld("evidence_used", "liststr", FALSE), Fld("context_coverage", "level", TRUE),
       Fld("answer_status", "answer_status", TRUE) >>

\* the keys of SCHEMA_MODELS
SCHEMA_MODELS ==
    {PyStr(<<"generic_extraction">>), PyStr(<<"classification">>),
     PyStr(<<"qna">>), PyStr(<<"summarization">>), PyStr(<<"action_plan">>),
     PyStr(<<"rag">>)}

\* SCHEMA_MODELS[schema_type]
SchemaModel(schema_type) ==
    CASE schema_type.x = <<"generic_extraction">> -> GenericExtractionOutput
      [] schema_type.x = <<"classification">> -> ClassificationOutput
      [] schema_type.x = <<"qna">> -> QnAOutput
      [] schema_type.x = <<"summarization">> -> SummarizationOutput
      [] schema_type.x = <<"action_plan">> -> ActionPlanOutput
      [] schema_type.x = <<"rag">> -> RAGOutput

\* the values a Field(..., pattern=...) accepts
PatternValues(ty) ==
    CASE ty = "level" -> {<<"high">>, <<"medium">>, <<"low">>}
      [] ty = "answer_type" -> {<<"direct">>, <<"inferred">>, <<"insufficient_context">>}
      [] ty = "tone" -> {<<"formal">>, <<"informal">>, <<"neutral">>}
      [] ty = "answer_status" -> {<<"answered">>, <<"partial">>, <<"unable_to_answer">>}

\* a number, or (pydantic's lax mode) a boolean or a string that reads as one
Numeric(v) == v.t \in {"num", "bool"} \/ (v.t = "str" /\ v.x \in {<<"0">>, <<"1">>})

RECURSIVE FieldValid(_, _)
RECURSIVE ModelValid(_, _)

\* pydantic's validation of value v against a field declared with type ty
FieldValid(ty, v) ==
    CASE ty = "str" -> v.t = "str"
      [] ty = "optstr" -> v.t \in {"str", "None"}
      [] ty \in {"level", "answer_type", "tone", "answer_status"} ->
            v.t = "str" /\ v.x \in PatternValues(ty)
      [] ty \in {"float", "int"} -> Numeric(v)
      [] ty = "liststr" ->
            v.t = "list" /\ \A i \in 1..Len(v.l) : v.l[i].t = "str"
      [] ty = "listint" ->
            v.t = "list" /\ \A i \in 1..Len(v.l) : Numeric(v.l[i])
      [] ty = "dictfloat" ->
            v.t = "dict" /\ \A i \in 1..Len(v.m) : Numeric(v.m[i].v)
      [] ty = "listEntity" ->
            v.t = "list" /\ \A i \in 1..Len(v.l) : ModelValid(Entity, v.l[i])
      [] ty = "listStep" ->
            v.t = "list" /\ \A i \in 1..Len(v.l) : ModelValid(ActionStep, v.l[i])

\* a model whose fields all have defaults
ModelValidAllOptional(model, d) ==
    /\ d.t = "dict"
    /\ \A i \in 1..Len(model) :
          Has(d.m, model[i].k) => FieldValid(model[i].ty, Get(d.m, model[i].k))

\* Model(**d) succeeds: d is a mapping, every field without default is
\* present, every present field validates; other keys are ignored
ModelValid(model, d) ==
    /\ d.t = "dict"
    /\ \A i \in 1..Len(model) :
          IF Has(d.m, model[i].k) THEN FieldValid(model[i].ty, Get(d.m, model[i].k))
          ELSE ~model[i].req

\* SCHEMA_MODELS[schema_type](**output_dict): the class of the exception it
\* raises, "none" when the model is built
Construct(model, d) ==
    IF d.t # "dict" THEN "TypeError"
    ELSE IF ModelValid(model, d) THEN "none"
    ELSE "ValidationError"

\* a handler naming pydantic's error alone
ValidateCatchesValidationError(kind) == kind = "ValidationError"

\* except Exception (validate_output line 93)
ValidateCatches(kind) == kind \in {"TypeError", "ValidationError"}

\* validate_output(output_dict, schema_type): the value it returns
validate_output(output_dict, schema_type) ==
    IF schema_type \notin SCHEMA_MODELS THEN FALSE
    ELSE Construct(SchemaModel(schema_type), output_dict) = "none"

\* the class of the exception that leaves validate_output, "none" if it returns
validate_output_raises(output_dict, schema_type) ==
    IF schema_type \notin SCHEMA_MODELS THEN "none"
    ELSE LET e == Construct(SchemaModel(schema_type), output_dict)
         IN IF e = "none" \/ ValidateCatches(e) THEN "none" ELSE e

\* get_schema_model(schema_type): SCHEMA_MODELS.get, None for an unknown name;
\* ok = FALSE would stand for an exception
get_schema_model(schema_type) ==
    IF schema_type \in SCHEMA_MODELS
    THEN [ok |-> TRUE, val |-> SchemaModel(schema_type)]
    ELSE [ok |-> TRUE, val |-> None]

(***************************************************************************)
(* Python dicts with string keys (records of the pipeline, CSV rows) are   *)
(* functions from key names; d.get(k, default) and d[k] = v follow.        *)
(***************************************************************************)
DictGet(d, k, default) == IF k \in DOMAIN d THEN d[k] ELSE default
DictSet(d, k, v) == [x \in DOMAIN d \cup {k} |-> IF x = k THEN v ELSE d[x]]

(***************************************************************************)
(* vectorstore.py                                                          *)
(***************************************************************************)
\* retrieve_documents without its try/except: a failing search propagates
retrieve_documents_reraising(found) ==
    IF found.raised THEN [raised |-> TRUE, docs |-> <<>>]
    ELSE [raised |-> FALSE,
          docs |-> [j \in 1..Len(found.results) |->
                      [content |-> found.results[j].page_content,
                       metadata |-> found.results[j].metadata,
                       score |-> found.results[j].score]]]

\* retrieve_documents(vectorstore, query, k): found is what the capability
\* similarity_search_with_score did, [raised, results]; the value is
\* [raised, docs], raised telling whether an exception leaves the function
retrieve_documents(found) ==
    IF found.raised THEN [raised |-> FALSE, docs |-> <<>>]
    ELSE [raised |-> FALSE,
          docs |-> [j \in 1..Len(found.results) |->
                      [content |-> found.results[j].page_content,
                       metadata |-> found.results[j].metadata,
                       score |-> found.results[j].score]]]

(***************************************************************************)
(* agent.py: the steps of run_rag and run_direct as operators on the       *)
(* record being built                                                      *)
(***************************************************************************)
\* run_rag lines 28-37
NewRagRecord(query, schema_type, use_rag) ==
    [query |-> query, schema_type |-> schema_type,
     mode |-> IF use_rag THEN "rag" ELSE "direct",
     result |-> None, context_used |-> <<>>, valid_output |-> FALSE,
     latency_s |-> 0, error |-> None]

\* run_direct lines 100-108
NewDirectRecord(query, schema_type) ==
    [query |-> query, schema_type |-> schema_type, mode |-> "direct",
     result |-> None, valid_output |-> FALSE, latency_s |-> 0, error |-> None]

\* context_used holding each document whole
ContextUsedWhole(context_docs) ==
    [j \in 1..Len(context_docs) |->
        [content |-> context_docs[j].content,
         source |-> DictGet(context_docs[j].metadata, "source", PyStr(<<"unknown">>)),
         score |-> context_docs[j].score]]

\* run_rag lines 44-51
ContextUsed(context_docs) ==
    [j \in 1..Len(context_docs) |->
        [content |-> Prefix(context_docs[j].content, PREVIEW_LEN),
         source |-> DictGet(context_docs[j].metadata, "source", PyStr(<<"unknown">>)),
         score |-> context_docs[j].score]]

\* run_rag line 54
ContextText(context_docs) ==
    Join([j \in 1..Len(context_docs) |-> context_docs[j].content], <<"\n">>)

\* str(x) as interpolated by an f-string
Str(x) == IF x = None THEN <<"None">> ELSE x.x

\* run_rag lines 60-64
RagPrompt(prompt_template, use_rag, context_text, query) ==
    IF use_rag /\ context_text # <<>>
    THEN Replace(prompt_template, <<"{", "{", "context", "}", "}">>, context_text)
         \o <<"\n", "\n", "QUERY: ">> \o Str(query)
    ELSE prompt_template \o <<"\n", "\n", "QUERY: ">> \o Str(query)

\* run_direct line 112
DirectPrompt(prompt_template, input_data, query) ==
    prompt_template \o <<"\n", "\n", "INPUT: ">>
    \o json_dumps(IF input_data # None /\ input_data.m # <<>> THEN input_data
                  ELSE JDict(<<[k |-> <<"text">>, v |-> query]>>))

Fence == <<"'", "'", "'">>
FenceJson == Fence \o <<"j", "s", "o", "n">>

\* run_rag lines 73-77, run_direct lines 118-122
ExtractJson(response_text) ==
    LET json_str == Strip(response_text)
    IN IF StartsWith(json_str, FenceJson) THEN SliceFromTo(json_str, 7, 3)
       ELSE IF StartsWith(json_str, Fence) THEN SliceFromTo(json_str, 3, 3)
       ELSE json_str

\* run_rag line 83, run_direct line 128
ParseErrorMessage(fn) ==
    IF fn = "run_rag" THEN PyStr(<<"Failed to parse JSON from LLM response">>)
    ELSE PyStr(<<"Failed to parse JSON">>)

\* the inner handler naming another exception class
InnerCatchesKeyError(kind) == kind = "KeyError"

\* except json.JSONDecodeError (run_rag line 81, run_direct line 126)
InnerCatches(kind) == kind = "JSONDecodeError"

\* the outer handler narrowed to the error of an unknown schema name
OuterCatchesValueError(kind) == kind = "ValueError"

\* except Exception (run_rag line 85, run_direct line 130)
OuterCatches(kind) == kind \in {"JSONDecodeError", "ValueError", "ConnectionError"}

\* handlers that log the exception and leave the record's error unset
RaisedSilently(result, fn, kind, msg, inner) ==
    IF (inner /\ InnerCatches(kind)) \/ OuterCatches(kind)
    THEN [result |-> result, pc |-> "finalize"]
    ELSE [result |-> result, pc |-> "escaped"]

\* handlers that return the record from inside the except block
RaisedReturning(result, fn, kind, msg, inner) ==
    IF inner /\ InnerCatches(kind)
    THEN [result |-> [result EXCEPT !.error = ParseErrorMessage(fn)], pc |-> "returned"]
    ELSE IF OuterCatches(kind)
    THEN [result |-> [result EXCEPT !.error = PyStr(msg)], pc |-> "returned"]
    ELSE [result |-> result, pc |-> "escaped"]

\* an exception of class kind with text msg is raised in the run; inner tells
\* whether it is raised inside the try block of the parse stage.  The value
\* is the record and where the run goes: to its last lines, or out of the run
Raised(result, fn, kind, msg, inner) ==
    IF inner /\ InnerCatches(kind)
    THEN [result |-> [result EXCEPT !.error = ParseErrorMessage(fn)], pc |-> "finalize"]
    ELSE IF OuterCatches(kind)
    THEN [result |-> [result EXCEPT !.error = PyStr(msg)], pc |-> "finalize"]
    ELSE [result |-> result, pc |-> "escaped"]

\* a validation failure treated like a parse failure: payload dropped, error set
ValidatedOrDropped(result, schema_type) ==
    IF validate_output(result.result, schema_type)
    THEN [result EXCEPT !.valid_output = TRUE]
    ELSE [result EXCEPT !.result = None,
                        !.error = PyStr(<<"Output failed validation">>)]

\* run_rag line 80, run_direct line 125
Validated(result, schema_type) ==
    [result EXCEPT !.valid_output = validate_output(result.result, schema_type)]

(***************************************************************************)
(* chunking.py.  create_chunker builds langchain's                         *)
(* RecursiveCharacterTextSplitter(chunk_size, chunk_overlap, separators)   *)
(* with its defaults keep_separator = True, strip_whitespace = True and    *)
(* length_function = len; chunk_documents calls its split_text.  A text is *)
(* a sequence of characters here, one atom each.                           *)
(***************************************************************************)
\* chunking.py line 10
Separators == << <<"\n", "\n">>, <<"\n">>, <<" ">>, <<>> >>

\* create_chunker() under CHUNK_SIZE, CHUNK_OVERLAP: the splitter's
\* constructor raises ValueError when the overlap is larger than the size
create_chunker(chunk_size, chunk_overlap) ==
    IF chunk_overlap > chunk_size
    THEN [raised |-> "ValueError", chunk_size |-> chunk_size,
          chunk_overlap |-> chunk_overlap]
    ELSE [raised |-> "none", chunk_size |-> chunk_size, chunk_overlap |-> chunk_overlap]

\* re.split(sep, text), sep non-empty: the pieces between the occurrences
RECURSIVE RegexSplit(_, _)
RegexSplit(text, sep) ==
    LET i == Find(text, sep, 1)
    IN IF i = 0 THEN <<text>>
       ELSE <<SubSeq(text, 1, i - 1)>>
            \o RegexSplit(SubSeq(text, i + Len(sep), Len(text)), sep)

\* the split with keep_separator = False: the separators are dropped
split_text_dropping_separator(text, sep) ==
    IF sep = <<>> THEN [i \in 1..Len(text) |-> <<text[i]>>]
    ELSE SelectSeq(RegexSplit(text, sep), LAMBDA s : s # <<>>)

\* _split_text_with_regex(text, separator, keep_separator = True): every
\* separator stays at the start of the piece that follows it; empty pieces go
split_text_with_regex(text, sep) ==
    IF sep = <<>> THEN [i \in 1..Len(text) |-> <<text[i]>>]
    ELSE LET ps == RegexSplit(text, sep)
         IN SelectSeq(<<ps[1]>> \o [j \in 1..(Len(ps) - 1) |-> sep \o ps[j + 1]],
                      LAMBDA s : s # <<>>)

\* _join_docs(docs, separator): the joined, stripped text; <<>> stands for None
join_docs(docs, separator) == Strip(Join(docs, separator))

\* the while loop of _merge_splits: drop pieces from the front of current_doc
\* until what is left fits the overlap and leaves room for the next piece
RECURSIVE PopFront(_, _, _, _, _, _)
PopFront(current_doc, total, len, sepLen, chunk_size, chunk_overlap) ==
    IF total > chunk_overlap
       \/ (total + len + (IF Len(current_doc) > 0 THEN sepLen ELSE 0) > chunk_size
           /\ total > 0)
    THEN PopFront(Tail(current_doc),
                  total - (Len(current_doc[1])
                           + (IF Len(current_doc) > 1 THEN sepLen ELSE 0)),
                  len, sepLen, chunk_size, chunk_overlap)
    ELSE [current_doc |-> current_doc, total |-> total]

\* the for loop of _merge_splits from the piece splits[1] on
RECURSIVE MergeFrom(_, _, _, _, _, _, _)
MergeFrom(splits, docs, current_doc, total, separator, chunk_size, chunk_overlap) ==
    IF splits = <<>>
    THEN LET doc == join_docs(current_doc, separator)
         IN IF doc # <<>> THEN Append(docs, doc) ELSE docs
    ELSE LET d == Head(splits)
             sepLen == Len(separator)
             full == total + Len(d) + (IF Len(current_doc) > 0 THEN sepLen ELSE 0)
                        > chunk_size
                     /\ Len(current_doc) > 0
             doc == join_docs(current_doc, separator)
             kept == IF full
                     THEN PopFront(current_doc, total, Len(d), sepLen,
                                   chunk_size, chunk_overlap)
                     ELSE [current_doc |-> current_doc, total |-> total]
             grown == Append(kept.current_doc, d)
         IN MergeFrom(Tail(splits),
                      IF full /\ doc # <<>> THEN Append(docs, doc) ELSE docs,
                      grown,
                      kept.total + Len(d) + (IF Len(grown) > 1 THEN sepLen ELSE 0),
                      separator, chunk_size, chunk_overlap)

\* a merge without the size test: all the pieces end up in one chunk
merge_splits_whole(splits, separator, chunk_size, chunk_overlap) ==
    SelectSeq(<<join_docs(splits, separator)>>, LAMBDA doc : doc # <<>>)

\* _merge_splits(splits, separator)
merge_splits(splits, separator, chunk_size, chunk_overlap) ==
    MergeFrom(splits, <<>>, <<>>, 0, separator, chunk_size, chunk_overlap)

\* the index of the separator _split_text picks: the first that is empty or
\* occurs in the text
RECURSIVE PickSeparator(_, _, _)
PickSeparator(text, separators, i) ==
    IF i >= Len(separators) THEN Len(separators)
    ELSE IF separators[i] = <<>> \/ Contains(text, separators[i]) THEN i
    ELSE PickSeparator(text, separators, i + 1)

RECURSIVE split_text_from(_, _, _, _)
RECURSIVE SplitLoop(_, _, _, _, _, _)

\* the for loop of _split_text: pieces shorter than chunk_size are collected
\* and merged, a longer one is split again with the finer separators
SplitLoop(splits, good_splits, final_chunks, new_separators, chunk_size, chunk_overlap) ==
    LET merged == IF good_splits = <<>> THEN <<>>
                  ELSE merge_splits(good_splits, <<>>, chunk_size, chunk_overlap)
    IN IF splits = <<>> THEN final_chunks \o merged
       ELSE IF Len(Head(splits)) < chunk_size
       THEN SplitLoop(Tail(splits), Append(good_splits, Head(splits)), final_chunks,
                      new_separators, chunk_size, chunk_overlap)
       ELSE SplitLoop(Tail(splits), <<>>,
                      final_chunks \o merged
                      \o (IF new_separators = <<>> THEN <<Head(splits)>>
                          ELSE split_text_from(Head(splits), new_separators,
                                               chunk_size, chunk_overlap)),
                      new_separators, chunk_size, chunk_overlap)

\* RecursiveCharacterTextSplitter._split_text(text, separators)
split_text_from(text, separators, chunk_size, chunk_overlap) ==
    LET i == PickSeparator(text, separators, 1)
        separator == separators[i]
        new_separators == IF separator = <<>> \/ ~Contains(text, separator) THEN <<>>
                          ELSE SubSeq(separators, i + 1, Len(separators))
    IN SplitLoop(split_text_with_regex(text, separator), <<>>, <<>>,
                 new_separators, chunk_size, chunk_overlap)

\* splitter.split_text(text)
split_text(text, splitter) ==
    split_text_from(text, Separators, splitter.chunk_size, splitter.chunk_overlap)

\* chunk_documents numbering the chunks of a document from 1
DocChunksFromOne(doc, splitter) ==
    LET doc_chunks == split_text(DictGet(doc, "content", <<>>), splitter)
    IN [j \in 1..Len(doc_chunks) |->
          [id |-> DictGet(doc, "id", <<"unknown">>) \o <<"_", ToString(j)>>,
           source |-> DictGet(doc, "source", <<"unknown">>),
           content |-> doc_chunks[j],
           chunk_index |-> j]]

\* chunk_documents lines 20-27: the chunks of one document
DocChunks(doc, splitter) ==
    LET doc_chunks == split_text(DictGet(doc, "content", <<>>), splitter)
    IN [j \in 1..Len(doc_chunks) |->
          [id |-> DictGet(doc, "id", <<"unknown">>) \o <<"_", ToString(j - 1)>>,
           source |-> DictGet(doc, "source", <<"unknown">>),
           content |-> doc_chunks[j],
           chunk_index |-> j - 1]]

\* chunk_documents(documents): [raised, chunks]
RECURSIVE AllChunks(_, _)
AllChunks(documents, splitter) ==
    IF documents = <<>> THEN <<>>
    ELSE DocChunks(Head(documents), splitter) \o AllChunks(Tail(documents), splitter)

chunk_documents(documents, chunk_size, chunk_overlap) ==
    LET splitter == create_chunker(chunk_size, chunk_overlap)
    IN IF splitter.raised # "none" THEN [raised |-> splitter.raised, chunks |-> <<>>]
       ELSE [raised |-> "none", chunks |-> AllChunks(documents, splitter)]

(***************************************************************************)
(* metrics.py and metrics_report.py.  A float is the fraction [num, den];  *)
(* an aggregator gives [raised, val]: the class of the exception that      *)
(* leaves it ("none" if it returns) and the value it returns.              *)
(***************************************************************************)
Frac(num, den) == [num |-> num, den |-> den]
Returns(val) == [raised |-> "none", val |-> val]
Raises(kind) == [raised |-> kind, val |-> None]

\* bool(v) of a decoded JSON value
Truthy(v) ==
    CASE v.t = "None" -> FALSE
      [] v.t = "bool" -> v.b
      [] v.t = "num" -> v.n # 0
      [] v.t = "str" -> v.x # <<>>
      [] v.t = "list" -> v.l # <<>>
      [] v.t = "dict" -> v.m # <<>>

\* hash(v) is defined
Hashable(v) == v.t \notin {"list", "dict"}

RECURSIVE Sum(_)
Sum(ns) == IF ns = <<>> THEN 0 ELSE Head(ns) + Sum(Tail(ns))

\* ns with n put before the first larger entry
RECURSIVE Inserted(_, _)
Inserted(ns, n) ==
    IF ns = <<>> THEN <<n>>
    ELSE IF n <= Head(ns) THEN <<n>> \o ns
    ELSE <<Head(ns)>> \o Inserted(Tail(ns), n)

RECURSIVE Sorted(_)
Sorted(ns) == IF ns = <<>> THEN <<>> ELSE Inserted(Sorted(Tail(ns)), Head(ns))

\* np.median of a non-empty list
Median(ns) ==
    LET s == Sorted(ns)
        n == Len(s)
    IN IF n % 2 = 1 THEN Frac(s[(n + 1) \div 2], 1)
       ELSE Frac(s[n \div 2] + s[n \div 2 + 1], 2)

\* schema_pass_rate dividing whatever the length of the batch
schema_pass_rate_unguarded(rs) ==
    IF Len(rs) = 0 THEN Raises("ZeroDivisionError")
    ELSE LET valid == Cardinality({i \in 1..Len(rs) :
                                      DictGet(rs[i], "valid_output", FALSE)})
         IN Returns(Frac(valid * 100, Len(rs)))

\* schema_pass_rate(results)
schema_pass_rate(rs) ==
    IF rs = <<>> THEN Returns(Frac(0, 1))
    ELSE LET valid == Cardinality({i \in 1..Len(rs) :
                                      DictGet(rs[i], "valid_output", FALSE)})
         IN Returns(Frac(valid * 100, Len(rs)))

\* latency_stats(results)
latency_stats(rs) ==
    LET latencies == [i \in 1..Len(rs) |-> DictGet(rs[i], "latency_s", 0)]
    IN IF latencies = <<>>
       THEN Returns([min |-> Frac(0, 1), max |-> Frac(0, 1), mean |-> Frac(0, 1),
                     median |-> Frac(0, 1)])
       ELSE Returns([min |-> Frac(Sorted(latencies)[1], 1),
                     max |-> Frac(Sorted(latencies)[Len(latencies)], 1),
                     mean |-> Frac(Sum(latencies), Len(latencies)),
                     median |-> Median(latencies)])

\* error_analysis(results): every error of the pipeline is a str
error_analysis(rs) ==
    LET n == Cardinality({i \in 1..Len(rs) : Truthy(DictGet(rs[i], "error", None))})
    IN Returns([total_errors |-> n,
                error_breakdown |-> IF n = 0 THEN <<>> ELSE <<[k |-> "str", v |-> n]>>,
                error_rate |-> IF rs # <<>> THEN Frac(n * 100, Len(rs)) ELSE Frac(0, 1)])

Levels == {PyStr(<<"high">>), PyStr(<<"medium">>), PyStr(<<"low">>)}

\* r['result'].get(key, 'low') for a record with a truthy result: the level
\* read, or the class of the exception the read or the use of it raises;
\* strict tells whether the value indexes the counters (rag_retrieval_metrics
\* line 113) or is looked up in them first (confidence_distribution line 130)
LevelOf(r, key, strict) ==
    IF r["result"].t # "dict" THEN "AttributeError"
    ELSE LET v == IF Has(r["result"].m, <<key>>) THEN Get(r["result"].m, <<key>>)
                  ELSE PyStr(<<"low">>)
         IN IF ~Hashable(v) THEN "TypeError"
            ELSE IF v \in Levels THEN v.x[1]
            ELSE IF strict THEN "KeyError"
            ELSE "other"

\* the loop over the records with a truthy result (rag_retrieval_metrics
\* lines 110-113, confidence_distribution lines 127-131): the counters, or
\* the exception of the first record that raises
RECURSIVE CountLevels(_, _, _, _)
CountLevels(rs, key, strict, counts) ==
    IF rs = <<>> THEN Returns(counts)
    ELSE IF ~Truthy(DictGet(Head(rs), "result", None))
    THEN CountLevels(Tail(rs), key, strict, counts)
    ELSE LET l == LevelOf(Head(rs), key, strict)
         IN IF l \in {"AttributeError", "TypeError", "KeyError"} THEN Raises(l)
            ELSE IF l = "other" THEN CountLevels(Tail(rs), key, strict, counts)
            ELSE CountLevels(Tail(rs), key, strict, [counts EXCEPT ![l] = @ + 1])

NoLevels == [high |-> 0, medium |-> 0, low |-> 0]

\* rag_retrieval_metrics(results); <<>> stands for the empty dict
rag_retrieval_metrics(rs) ==
    LET rag_results == SelectSeq(rs, LAMBDA r : DictGet(r, "mode", "") = "rag")
        c == CountLevels(rag_results, "context_coverage", TRUE, NoLevels)
        total == Len(rag_results)
    IN IF rag_results = <<>> THEN Returns(<<>>)
       ELSE IF c.raised # "none" THEN c
       ELSE Returns([total_rag_queries |-> total,
                     context_coverage_high_pct |-> Frac(c.val.high * 100, total),
                     context_coverage_medium_pct |-> Frac(c.val.medium * 100, total),
                     context_coverage_low_pct |-> Frac(c.val.low * 100, total)])

\* confidence_distribution(results)
confidence_distribution(rs) ==
    LET c == CountLevels(rs, "confidence", FALSE, NoLevels)
        total == c.val.high + c.val.medium + c.val.low
    IN IF c.raised # "none" THEN c
       ELSE IF total = 0
       THEN Returns([high |-> Frac(0, 1), medium |-> Frac(0, 1), low |-> Frac(0, 1)])
       ELSE Returns([high |-> Frac(c.val.high * 100, total),
                     medium |-> Frac(c.val.medium * 100, total),
                     low |-> Frac(c.val.low * 100, total)])

\* generate_json_metrics(results) lines 107-120: the five aggregators in the
\* order of the dict display; the first exception leaves the function
generate_json_metrics(rs) ==
    LET a == schema_pass_rate(rs)
        b == latency_stats(rs)
        c == error_analysis(rs)
        d == rag_retrieval_metrics(rs)
        e == confidence_distribution(rs)
    IN IF a.raised # "none" THEN Raises(a.raised)
       ELSE IF b.raised # "none" THEN Raises(b.raised)
       ELSE IF c.raised # "none" THEN Raises(c.raised)
       ELSE IF d.raised # "none" THEN Raises(d.raised)
       ELSE IF e.raised # "none" THEN Raises(e.raised)
       ELSE Returns([total_queries |-> Len(rs), schema_pass_rate |-> a.val,
                     latency_stats |-> b.val, error_analysis |-> c.val,
                     rag_metrics |-> d.val, confidence_distribution |-> e.val])

(***************************************************************************)
(* What the external capabilities may do.  The vector store answers a      *)
(* similarity search with [raised, results]; the language model answers    *)
(* llm.invoke with [raised, msg, content].                                 *)
(***************************************************************************)
MaxDocs == 2
MaxTasks == 2
MaxTick == 1

\* scores in tenths: MIN_SIMILARITY_SCORE = 0.3
MIN_SIMILARITY_SCORE == 3
RETRIEVAL_TOP_K == 5

SeqsUpTo(S, n) == UNION {[1..k -> S] : k \in 0..n}

NoMetadata == [k \in {} |-> None]
DocHigh ==
    [page_content |-> <<"alpha", "beta">>,
     metadata |-> [source |-> PyStr(<<"kb.txt">>)], score |-> 8]
DocLow == [page_content |-> <<"gamma">>, metadata |-> NoMetadata, score |-> 1]
DocBlank == [page_content |-> <<>>, metadata |-> NoMetadata, score |-> 5]
StoredDocs == {DocHigh, DocLow, DocBlank}

\* what similarity_search_with_score(query, k) may do
SearchOutcomes(docs, k) ==
    {[raised |-> TRUE, results |-> <<>>]}
    \cup {[raised |-> FALSE, results |-> r] : r \in SeqsUpTo(docs, Min(k, MaxDocs))}

FewSearchOutcomes ==
    {[raised |-> TRUE, results |-> <<>>], [raised |-> FALSE, results |-> <<>>],
     [raised |-> FALSE, results |-> <<DocHigh, DocLow>>]}

KV(k, v) == [k |-> <<k>>, v |-> v]
S(w) == PyStr(<<w>>)

\* a payload that follows the output schema of each template
ValidPayload(schema_type) ==
    CASE schema_type.x = <<"generic_extraction">> ->
            JDict(<< KV("entities", JList(<< JDict(<< KV("value", S("Test")),
                        KV("type", S("name")), KV("confidence", S("high")),
                        KV("source_snippet", S("Test entity")) >>) >>)),
                     KV("extraction_summary", S("Extracted test entity")),
                     KV("notes", None) >>)
      [] schema_type.x = <<"classification">> ->
            JDict(<< KV("primary_category", S("positive")),
                     KV("confidence_primary", S("high")),
                     KV("secondary_categories", JList(<<>>)),
                     KV("confidence_scores", JDict(<<KV("positive", JNum(1))>>)),
                     KV("reasoning", S("positive words")),
                     KV("uncertainty_notes", None) >>)
      [] schema_type.x = <<"qna">> ->
            JDict(<< KV("answer", S("x")), KV("confidence", S("medium")),
                     KV("answer_type", S("direct")) >>)
      [] schema_type.x = <<"summarization">> ->
            JDict(<< KV("summary", S("x")), KV("key_points", JList(<<S("p")>>)),
                     KV("tone", S("neutral")), KV("compression_ratio", JNum(1)),
                     KV("completeness", S("low")) >>)
      [] schema_type.x = <<"action_plan">> ->
            JDict(<< KV("objective", S("x")),
                     KV("steps", JList(<< JDict(<< KV("step_number", JNum(1)),
                        KV("action", S("a")), KV("details", S("d")),
                        KV("time_estimate", S("1h")),
                        KV("success_criteria", S("c")) >>) >>)),
                     KV("total_duration", S("1h")), KV("success_rate", S("high")) >>)
      [] schema_type.x = <<"rag">> ->
            JDict(<< KV("answer", S("x")), KV("confidence", S("high")),
                     KV("evidence_used", JList(<<>>)),
                     KV("context_coverage", S("high")),
                     KV("answer_status", S("answered")) >>)

\* well-formed JSON that no schema accepts: an enum value outside its set
BadEnumPayload ==
    JDict(<< KV("answer", S("x")), KV("confidence", S("certain")),
             KV("evidence_used", JList(<<>>)), KV("context_coverage", S("high")),
             KV("answer_status", S("answered")) >>)

Prose == <<"I don't have enough information to answer this">>

\* the layouts in which a model wraps its answer
Wrappings(p) ==
    { p,
      <<" ", "\n">> \o p \o <<"\n">>,
      FenceJson \o <<"\n">> \o p \o <<"\n">> \o Fence,
      Fence \o <<"\n">> \o p \o <<"\n">> \o Fence \o <<"\n">>,
      FenceJson \o <<"\n">> \o p }

AllPayloadTexts ==
    {json_dumps(ValidPayload(n)) : n \in SCHEMA_MODELS}
    \cup {json_dumps(BadEnumPayload), <<"{", "}">>, <<"null">>, <<"[", "]">>,
          <<"1">>, Prose, <<>>}

\* what llm.invoke(prompt) may do
LlmOutcomes(texts) ==
    {[raised |-> TRUE, msg |-> m, content |-> <<>>] :
        m \in {<<"connection refused">>, <<>>}}
    \cup {[raised |-> FALSE, msg |-> <<>>, content |-> c] :
            c \in UNION {Wrappings(p) : p \in texts}}

FewLlmOutcomes ==
    {[raised |-> TRUE, msg |-> <<"connection refused">>, content |-> <<>>]}
    \cup {[raised |-> FALSE, msg |-> <<>>, content |-> c] :
            c \in {Prose, <<"{", "}">>,
                   FenceJson \o <<"\n">> \o json_dumps(ValidPayload(S("rag")))
                       \o <<"\n">> \o Fence}}

(***************************************************************************)
(* The program state: main() of main.py, with the request that             *)
(* RAGAgent.run_and_validate is running for it.                            *)
(*   args        the parsed command line                                   *)
(*   csv_rows    the rows of the file named by --process-csv               *)
(*   tasks, idx  the loaded tasks and the position of the batch loop       *)
(*   results     main's list of records                                    *)
(*   main_pc     where main is; exc the exception that ended it, if any    *)
(*   out_file    what the export wrote                                     *)
(*   run_pc      where the running request is; frame its local variables   *)
(*   calls       the calls the running request has made so far, in order   *)
(*   now         the reading of time.time()                                *)
(* and, for the functions of the package that are called on their own      *)
(* (parse stage, schemas.py, prompt_library.py, chunking.py, metrics.py):  *)
(*   lib_args    the arguments of the call                                 *)
(*   lib_pc      how far the caller has come                               *)
(*   lib_ret     what the calls made so far returned or raised             *)
(***************************************************************************)
VARIABLES args, csv_rows, tasks, idx, results, main_pc, exc, out_file,
          run_pc, frame, calls, now, lib_args, lib_pc, lib_ret

vars == <<args, csv_rows, tasks, idx, results, main_pc, exc, out_file,
          run_pc, frame, calls, now, lib_args, lib_pc, lib_ret>>
libVars == <<lib_args, lib_pc, lib_ret>>
mainVars == <<args, csv_rows, tasks, idx, results, main_pc, exc, out_file, libVars>>
pipelineVars == <<args, csv_rows, tasks, idx, results, main_pc, exc, out_file,
                  run_pc, frame, calls, now>>

NoFrame ==
    [fn |-> "none", query |-> None, schema_type |-> None, use_rag |-> FALSE,
     start_time |-> 0, result |-> <<>>, context_docs |-> <<>>,
     context_text |-> <<>>, full_prompt |-> <<>>, response_text |-> <<>>]

NoFile == [kind |-> "none", rows |-> <<>>]

\* main line 38: create_vector_store() if not args.no_rag else None
HasVectorstore == ~args.no_rag

(***************************************************************************)
(* RAGAgent.run_and_validate, run_rag, run_direct                          *)
(***************************************************************************)
\* a run whose record is shared between the requests: the error of the
\* request before is still in it
CallRunOnSharedRecord(query, schema_type, use_rag) ==
    LET error == IF results = <<>> THEN None ELSE results[Len(results)]["error"]
    IN /\ run_pc = "idle"
       /\ calls' = <<>>
       /\ IF use_rag /\ HasVectorstore
          THEN /\ frame' = [NoFrame EXCEPT !.fn = "run_rag", !.query = query,
                               !.schema_type = schema_type, !.use_rag = TRUE,
                               !.start_time = now,
                               !.result = [NewRagRecord(query, schema_type, TRUE)
                                              EXCEPT !.error = error]]
               /\ run_pc' = "retrieve"
          ELSE /\ frame' = [NoFrame EXCEPT !.fn = "run_direct", !.query = query,
                               !.schema_type = schema_type,
                               !.start_time = now,
                               !.result = [NewDirectRecord(query, schema_type)
                                              EXCEPT !.error = error]]
               /\ run_pc' = "assemble"
       /\ now' = now

\* run_and_validate lines 144-147 with the first lines of the run it calls
\* (run_rag 27-37, run_direct 99-108)
CallRun(query, schema_type, use_rag) ==
    /\ run_pc = "idle"
    /\ calls' = <<>>
    /\ IF use_rag /\ HasVectorstore
       THEN /\ frame' = [NoFrame EXCEPT !.fn = "run_rag", !.query = query,
                            !.schema_type = schema_type, !.use_rag = TRUE,
                            !.start_time = now,
                            !.result = NewRagRecord(query, schema_type, TRUE)]
            /\ run_pc' = "retrieve"
       ELSE /\ frame' = [NoFrame EXCEPT !.fn = "run_direct", !.query = query,
                            !.schema_type = schema_type,
                            !.start_time = now,
                            !.result = NewDirectRecord(query, schema_type)]
            /\ run_pc' = "assemble"
    /\ now' = now

\* an entry of calls: the callee, whether it returned, and how many results
Ev(op, ok, n) == [op |-> op, ok |-> ok, n |-> n]

\* run_rag lines 41-54: retrieval, context_used
RunRetrieve(searches, ticks) ==
    /\ run_pc = "retrieve"
    /\ IF frame.use_rag /\ HasVectorstore
       THEN \E found \in searches, d \in ticks :
              LET r == retrieve_documents(found)
                  h == Raised(frame.result, frame.fn, "ConnectionError",
                              <<"vector store unavailable">>, FALSE)
              IN /\ IF r.raised
                    THEN /\ frame' = [frame EXCEPT !.result = h.result]
                         /\ run_pc' = h.pc
                    ELSE /\ frame' = [frame EXCEPT !.context_docs = r.docs,
                                         !.result.context_used = ContextUsed(r.docs)]
                         /\ run_pc' = "assemble"
                 /\ calls' = Append(calls, Ev("similarity_search", ~found.raised,
                                              Len(found.results)))
                 /\ now' = now + d
       ELSE /\ run_pc' = "assemble"
            /\ UNCHANGED <<frame, calls, now>>
    /\ UNCHANGED mainVars

\* run_rag lines 54-64, run_direct lines 111-112: template and prompt
RunAssemble ==
    /\ run_pc = "assemble"
    /\ LET tpl == get_prompt_template(frame.schema_type)
           h == Raised(frame.result, frame.fn, "ValueError", tpl.err.x, FALSE)
           context_text == IF frame.fn = "run_rag" THEN ContextText(frame.context_docs)
                           ELSE <<>>
       IN IF ~tpl.ok
          THEN /\ frame' = [frame EXCEPT !.context_text = context_text,
                                         !.result = h.result]
               /\ run_pc' = h.pc
          ELSE /\ frame' = [frame EXCEPT !.context_text = context_text,
                    !.full_prompt =
                    IF frame.fn = "run_rag"
                    THEN RagPrompt(tpl.val, frame.use_rag, context_text, frame.query)
                    ELSE DirectPrompt(tpl.val, None, frame.query)]
               /\ run_pc' = "generate"
    /\ calls' = Append(calls, Ev("get_prompt_template", get_prompt_template(frame.schema_type).ok, 0))
    /\ UNCHANGED <<now>>
    /\ UNCHANGED mainVars

\* run_rag lines 67-68 and 85-87, run_direct lines 114-115 and 130-132
RunGenerate(outcomes, ticks) ==
    /\ run_pc = "generate"
    /\ \E o \in outcomes, d \in ticks :
          LET h == Raised(frame.result, frame.fn, "ConnectionError", o.msg, FALSE)
          IN /\ IF o.raised
                THEN /\ frame' = [frame EXCEPT !.result = h.result]
                     /\ run_pc' = h.pc
                ELSE /\ frame' = [frame EXCEPT !.response_text = o.content]
                     /\ run_pc' = "parse"
             /\ calls' = Append(calls, Ev("llm.invoke", ~o.raised, 0))
             /\ now' = now + d
    /\ UNCHANGED mainVars

\* run_rag lines 71-79 and 81-83, run_direct lines 117-124 and 126-128
RunParse ==
    /\ run_pc = "parse"
    /\ LET r == json_loads(ExtractJson(frame.response_text))
           h == Raised(frame.result, frame.fn, "JSONDecodeError",
                       <<"Expecting value">>, TRUE)
       IN /\ IF r.ok
             THEN /\ frame' = [frame EXCEPT !.result.result = r.val]
                  /\ run_pc' = "validate"
             ELSE /\ frame' = [frame EXCEPT !.result = h.result]
                  /\ run_pc' = h.pc
          /\ calls' = Append(calls, Ev("json.loads", r.ok, 0))
    /\ UNCHANGED <<now>>
    /\ UNCHANGED mainVars

\* run_rag line 80, run_direct line 125
RunValidate ==
    /\ run_pc = "validate"
    /\ frame' = [frame EXCEPT !.result = Validated(frame.result, frame.schema_type)]
    /\ run_pc' = "finalize"
    /\ calls' = Append(calls, Ev("validate_output", TRUE, 0))
    /\ UNCHANGED <<now>>
    /\ UNCHANGED mainVars

\* run_rag lines 89-90, run_direct lines 134-135
RunFinalize ==
    /\ run_pc = "finalize"
    /\ frame' = [frame EXCEPT !.result.latency_s = now - frame.start_time]
    /\ run_pc' = "returned"
    /\ UNCHANGED <<calls, now>>
    /\ UNCHANGED mainVars

(***************************************************************************)
(* csv_processor.py                                                        *)
(***************************************************************************)
\* load_csv_tasks lines 10-18: one task per row
load_csv_tasks(rows) ==
    [j \in 1..Len(rows) |->
        [task_id |-> DictGet(rows[j], "task_id", None),
         task_type |-> DictGet(rows[j], "task_type", None),
         input |-> DictGet(rows[j], "input_text", None),
         metadata |-> [k \in DOMAIN rows[j] \ {"task_id", "task_type", "input_text"}
                          |-> rows[j][k]]]]

\* the row save_results_csv writes for record r (lines 30-35)
CsvRow(r) ==
    [task_id |-> r["task_id"], task_type |-> r["task_type"],
     result_json |-> json_dumps(r["result"]),
     latency_s |-> DictGet(r, "latency_s", 0)]

\* the keys save_results_csv reads with r[...]
CsvRowReadable(r) == {"task_id", "task_type", "result"} \subseteq DOMAIN r

\* number of leading records that save_results_csv can write
RECURSIVE WritablePrefix(_)
WritablePrefix(rs) ==
    IF rs = <<>> \/ ~CsvRowReadable(rs[1]) THEN 0 ELSE 1 + WritablePrefix(Tail(rs))

\* save_results_csv(results, output_path): the file and the exception, if any
save_results_csv(rs) ==
    IF rs = <<>> THEN [file |-> NoFile, exc |-> None]
    ELSE LET n == WritablePrefix(rs)
         IN [file |-> [kind |-> "csv", rows |-> [j \in 1..n |-> CsvRow(rs[j])]],
             exc |-> IF n = Len(rs) THEN None
                     ELSE IF "task_id" \notin DOMAIN rs[n + 1]
                          THEN PyStr(<<"KeyError: 'task_id'">>)
                     ELSE IF "task_type" \notin DOMAIN rs[n + 1]
                          THEN PyStr(<<"KeyError: 'task_type'">>)
                     ELSE PyStr(<<"KeyError: 'result'">>)]

(***************************************************************************)
(* main.py                                                                 *)
(***************************************************************************)
\* main lines 55-57: load the batch
MainLoadCsv ==
    /\ main_pc = "start"
    /\ args.process_csv
    /\ tasks' = load_csv_tasks(csv_rows)
    /\ idx' = 1
    /\ main_pc' = "csv_loop"
    /\ UNCHANGED <<args, csv_rows, results, exc, out_file, run_pc, frame, calls, now>>
    /\ UNCHANGED libVars

\* main lines 59-62: the next task of the batch is handed to the agent
MainCsvCall ==
    /\ main_pc = "csv_loop"
    /\ idx <= Len(tasks)
    /\ CallRun(DictGet(tasks[idx], "input_text", None),
               DictGet(tasks[idx], "task_type", args.schema),
               ~args.no_rag)
    /\ main_pc' = "csv_call"
    /\ UNCHANGED <<args, csv_rows, tasks, idx, results, exc, out_file>>
    /\ UNCHANGED libVars

\* main lines 62-64 after run_and_validate returned
MainCsvAppend ==
    /\ main_pc = "csv_call"
    /\ run_pc = "returned"
    /\ results' = Append(results,
                         DictSet(frame.result, "task_id",
                                 DictGet(tasks[idx], "task_id", None)))
    /\ idx' = idx + 1
    /\ main_pc' = "csv_loop"
    /\ run_pc' = "idle"
    /\ frame' = NoFrame
    /\ UNCHANGED <<args, csv_rows, tasks, exc, out_file, calls, now>>
    /\ UNCHANGED libVars

\* main lines 66-70: the export of the batch
MainCsvSave ==
    /\ main_pc = "csv_loop"
    /\ idx > Len(tasks)
    /\ LET w == save_results_csv(results)
       IN /\ out_file' = w.file
          /\ exc' = w.exc
          /\ main_pc' = IF w.exc = None THEN "done" ELSE "crashed"
    /\ UNCHANGED <<args, csv_rows, tasks, idx, results, run_pc, frame, calls, now>>
    /\ UNCHANGED libVars

\* main lines 73-75: a single text query
MainTextCall ==
    /\ main_pc = "start"
    /\ ~args.process_csv
    /\ args.text # None
    /\ CallRun(args.text, args.schema, ~args.no_rag)
    /\ main_pc' = "text_call"
    /\ UNCHANGED <<args, csv_rows, tasks, idx, results, exc, out_file>>
    /\ UNCHANGED libVars

\* main line 76
MainTextAppend ==
    /\ main_pc = "text_call"
    /\ run_pc = "returned"
    /\ results' = Append(results, frame.result)
    /\ main_pc' = "save"
    /\ run_pc' = "idle"
    /\ frame' = NoFrame
    /\ UNCHANGED <<args, csv_rows, tasks, idx, exc, out_file, calls, now>>
    /\ UNCHANGED libVars

\* main lines 79-93: the JSON export
MainSaveJson ==
    /\ main_pc = "save"
    /\ out_file' = IF results # <<>> THEN [kind |-> "json", rows |-> results]
                   ELSE NoFile
    /\ main_pc' = "done"
    /\ UNCHANGED <<args, csv_rows, tasks, idx, results, exc, run_pc, frame, calls, now>>
    /\ UNCHANGED libVars

(***************************************************************************)
(* Specifications.  Spec: main --text, one request, every schema name and  *)
(* every capability outcome.  SpecCsv: main --process-csv, a batch.        *)
(***************************************************************************)
Question == PyStr(<<"What is X?">>)

SchemaArgs == SCHEMA_MODELS \cup {S("bogus")}

InitCommon ==
    /\ tasks = <<>>
    /\ idx = 0
    /\ results = <<>>
    /\ main_pc = "start"
    /\ exc = None
    /\ out_file = NoFile
    /\ run_pc = "idle"
    /\ frame = NoFrame
    /\ calls = <<>>
    /\ now = 0

\* no function of the package is being called on its own
NoLibCall ==
    /\ lib_args = None
    /\ lib_pc = "none"
    /\ lib_ret = <<>>

Init ==
    /\ args \in {[no_rag |-> b, schema |-> n, text |-> Question,
                  process_csv |-> FALSE] : b \in BOOLEAN, n \in SchemaArgs}
    /\ csv_rows = <<>>
    /\ InitCommon
    /\ NoLibCall

Run(searches, outcomes, ticks) ==
    \/ RunRetrieve(searches, ticks)
    \/ RunAssemble
    \/ RunGenerate(outcomes, ticks)
    \/ RunParse
    \/ RunValidate
    \/ RunFinalize

Next ==
    \/ MainTextCall
    \/ MainTextAppend
    \/ MainSaveJson
    \/ Run(SearchOutcomes(StoredDocs, RETRIEVAL_TOP_K), LlmOutcomes(AllPayloadTexts),
           0..MaxTick)

Spec == Init /\ [][Next]_vars

\* the files a batch is read from: with or without a task_type column
CsvRowTypes == {S("rag"), S("qna"), S("bogus")}

CsvFiles ==
    UNION {
      {[j \in 1..n |-> [task_id |-> PyStr(<<"task", ToString(j)>>),
                        task_type |-> ty[j], input_text |-> Question]]
          : ty \in [1..n -> CsvRowTypes]}
      \cup {[j \in 1..n |-> [task_id |-> PyStr(<<"task", ToString(j)>>),
                             input_text |-> Question]]}
      : n \in 0..MaxTasks}

InitCsv ==
    /\ args \in {[no_rag |-> b, schema |-> S("generic_extraction"), text |-> None,
                  process_csv |-> TRUE] : b \in BOOLEAN}
    /\ csv_rows \in CsvFiles
    /\ InitCommon
    /\ NoLibCall

NextCsv ==
    \/ MainLoadCsv
    \/ MainCsvCall
    \/ MainCsvAppend
    \/ MainCsvSave
    \/ Run(FewSearchOutcomes, FewLlmOutcomes, {1})

SpecCsv == InitCsv /\ [][NextCsv]_vars

(***************************************************************************)
(* SpecContext: main --text with retrieval, over a store whose documents   *)
(* are shorter than, as long as and longer than the preview of             *)
(* context_used.                                                           *)
(***************************************************************************)
\* a stored document of n characters
DocOfLen(n, score) ==
    [page_content |-> [i \in 1..n |-> "c"],
     metadata |-> [source |-> PyStr(<<"long.txt">>)], score |-> score]

LongDocs == {DocHigh, DocOfLen(PREVIEW_LEN, 7), DocOfLen(PREVIEW_LEN + 1, 9)}

InitContext ==
    /\ args \in {[no_rag |-> FALSE, schema |-> n, text |-> Question,
                  process_csv |-> FALSE] : n \in {S("rag"), S("bogus")}}
    /\ csv_rows = <<>>
    /\ InitCommon
    /\ NoLibCall

NextContext ==
    \/ MainTextCall
    \/ MainTextAppend
    \/ MainSaveJson
    \/ Run(SearchOutcomes(LongDocs, RETRIEVAL_TOP_K), FewLlmOutcomes, {1})

SpecContext == InitContext /\ [][NextContext]_vars

(***************************************************************************)
(* SpecParse: the parse stage called on its own, on the serialization of   *)
(* a JSON value as a language model lays it out.                           *)
(***************************************************************************)
MaxStrLen == 2
MaxItems == 2

\* the pipeline is not running
InitIdle ==
    /\ args = [no_rag |-> TRUE, schema |-> S("generic_extraction"), text |-> None,
               process_csv |-> FALSE]
    /\ csv_rows = <<>>
    /\ InitCommon

StrAtoms == {"x", " ", "\n", "\"", "\\"}

JsonStrings ==
    {PyStr(x) : x \in SeqsUpTo(StrAtoms, MaxStrLen)} \cup {PyStr(FenceJson), PyStr(<<"null">>)}

Leaves ==
    {None, JNum(0), JNum(1), JBool(TRUE), JBool(FALSE), PyStr(<<>>),
     PyStr(<<"\"", "\n">>)}

JsonLists == {JList(l) : l \in SeqsUpTo(Leaves, MaxItems)}

JsonKeys == {<<"k">>, <<"\"", "k">>, <<>>}

\* dicts of up to MaxItems members with distinct keys
JsonDicts ==
    {JDict(m) : m \in
        {q \in SeqsUpTo({[k |-> k, v |-> v] : k \in JsonKeys, v \in Leaves}, MaxItems) :
            \A i, j \in 1..Len(q) : i # j => q[i].k # q[j].k}}

\* JSON values: scalars, lists and dicts of scalars, and one more level
JsonValues ==
    Leaves \cup JsonStrings \cup JsonLists \cup JsonDicts
    \cup {JList(<<v>>) : v \in JsonLists}
    \cup {JDict(<<[k |-> <<"k">>, v |-> v], [k |-> <<"l">>, v |-> JDict(<<>>)]>>) :
            v \in JsonLists}

\* the layouts of an answer: bare, or in a json fence, with or without
\* whitespace around it
Layouts == {"bare", "padded", "fenced", "fenced padded"}

LaidOut(layout, text) ==
    CASE layout = "bare" -> text
      [] layout = "padded" -> <<"\n", " ">> \o text \o <<" ", "\n">>
      [] layout = "fenced" -> FenceJson \o <<"\n">> \o text \o <<"\n">> \o Fence
      [] layout = "fenced padded" ->
            <<" ">> \o FenceJson \o <<"\n">> \o text \o <<"\n">> \o Fence \o <<"\n">>

\* the parse stage with the fence left in place
ParseStageKeepingFence(response_text) == json_loads(Strip(response_text))

\* run_rag lines 71-79, run_direct lines 117-124: strip, cut the fence, decode
ParseStage(response_text) == json_loads(ExtractJson(response_text))

InitParse ==
    /\ lib_args \in {[obj |-> v, layout |-> l, text |-> <<>>] :
                        v \in JsonValues, l \in Layouts}
    /\ lib_pc = "start"
    /\ lib_ret = <<>>
    /\ InitIdle

\* the model answers with the serialization of obj in the chosen layout
LlmAnswers ==
    /\ lib_pc = "start"
    /\ lib_args' = [lib_args EXCEPT !.text = LaidOut(lib_args.layout,
                                                     json_dumps(lib_args.obj))]
    /\ lib_pc' = "answered"
    /\ UNCHANGED <<lib_ret, pipelineVars>>

\* the parse stage runs on the answer
ParseAnswer ==
    /\ lib_pc = "answered"
    /\ lib_ret' = Append(lib_ret, ParseStage(lib_args.text))
    /\ lib_pc' = "parsed"
    /\ UNCHANGED <<lib_args, pipelineVars>>

NextParse ==
    \/ LlmAnswers
    \/ ParseAnswer

SpecParse == InitParse /\ [][NextParse]_vars

(***************************************************************************)
(* SpecSchemas: validate_output, get_prompt_template and get_schema_model  *)
(* called on their own, as tests/test_basic.py calls them.  A payload is   *)
(* the schema's example payload with one change applied to it.             *)
(***************************************************************************)
\* d without the key k
Without(m, k) == SelectSeq(m, LAMBDA e : e.k # k)

\* the items of d in the opposite order
Reversed(m) == [j \in 1..Len(m) |-> m[Len(m) + 1 - j]]

EnumTypes == {"level", "answer_type", "tone", "answer_status"}
ContainerTypes == {"liststr", "listint", "dictfloat", "listEntity", "listStep"}
FieldsOf(model, tys) == {model[i].k : i \in {j \in 1..Len(model) : model[j].ty \in tys}}
RequiredOf(model) == {model[i].k : i \in {j \in 1..Len(model) : model[j].req}}

\* changes that keep a payload inside its contract
Harmless == {"none", "reversed", "extra field", "defaults left out"}

\* the changes that apply to the example payload of a model
Changes(model) ==
    {[kind |-> c, k |-> <<>>] : c \in Harmless}
    \cup {[kind |-> "required left out", k |-> k] : k \in RequiredOf(model)}
    \cup {[kind |-> c, k |-> k] :
            c \in {"enum outside set", "enum in capitals", "enum with newline"},
            k \in FieldsOf(model, EnumTypes)}
    \cup {[kind |-> "number for str", k |-> k] : k \in FieldsOf(model, {"str"})}
    \cup {[kind |-> "str for container", k |-> k] : k \in FieldsOf(model, ContainerTypes)}
    \cup {[kind |-> "ill-typed element", k |-> k] :
            k \in FieldsOf(model, ContainerTypes \ {"dictfloat"})}
    \cup {[kind |-> "numeric str for number", k |-> k] :
            k \in FieldsOf(model, {"float", "dictfloat"})}

BadEntity ==
    JDict(<< KV("value", S("Test")), KV("type", S("name")),
             KV("confidence", S("certain")) >>)

\* payload d (a dict) with change c applied
Changed(d, model, c) ==
    CASE c.kind = "none" -> d
      [] c.kind = "reversed" -> JDict(Reversed(d.m))
      [] c.kind = "extra field" -> JDict(DictPut(d.m, <<"trace_id">>, S("t-1")))
      [] c.kind = "defaults left out" ->
            JDict(SelectSeq(d.m, LAMBDA e : e.k \in RequiredOf(model)))
      [] c.kind = "required left out" -> JDict(Without(d.m, c.k))
      [] c.kind = "enum outside set" -> JDict(DictPut(d.m, c.k, S("certain")))
      [] c.kind = "enum in capitals" -> JDict(DictPut(d.m, c.k, S("HIGH")))
      [] c.kind = "enum with newline" ->
            JDict(DictPut(d.m, c.k, PyStr(Get(d.m, c.k).x \o <<"\n">>)))
      [] c.kind = "number for str" -> JDict(DictPut(d.m, c.k, JNum(1)))
      [] c.kind = "str for container" -> JDict(DictPut(d.m, c.k, S("x")))
      [] c.kind = "ill-typed element" ->
            JDict(DictPut(d.m, c.k,
                IF c.k = <<"entities">> THEN JList(<<BadEntity>>)
                ELSE JList(<<JDict(<<>>)>>)))
      [] c.kind = "numeric str for number" ->
            JDict(DictPut(d.m, c.k,
                IF c.k = <<"confidence_scores">>
                THEN JDict(<<KV("positive", S("1"))>>)
                ELSE S("1")))

\* payloads that are not JSON objects
NonObjects == {None, JNum(0), JNum(1), JBool(TRUE), S("high"), JList(<<>>),
               JList(<<S("answer")>>)}

\* schema names nobody registered
UnknownNames == {S("bogus"), S("RAG"), PyStr(<<>>), None}

\* the validate_output calls a caller repeats on the same arguments
MaxRepeats == 2

InitSchemas ==
    /\ lib_args \in
          UNION {{[p |-> Changed(ValidPayload(s), SchemaModel(s), c), s |-> s,
                   change |-> c.kind] : c \in Changes(SchemaModel(s))} :
                 s \in SCHEMA_MODELS}
          \cup {[p |-> p, s |-> s, change |-> "not an object"] :
                  p \in NonObjects, s \in SCHEMA_MODELS \cup UnknownNames}
          \cup {[p |-> ValidPayload(n), s |-> s, change |-> "none"] :
                  n \in SCHEMA_MODELS, s \in UnknownNames}
    /\ lib_pc = "start"
    /\ lib_ret = <<>>
    /\ InitIdle

\* what a call returned: the callee, the class of the exception that left
\* it ("none" if it returned), and the value
Ret(fn, raised, val) == [fn |-> fn, raised |-> raised, val |-> val]

\* validate_output(p, s), up to MaxRepeats times
CallValidateOutput ==
    /\ lib_pc = "start"
    /\ Len(lib_ret) < MaxRepeats
    /\ lib_ret' = Append(lib_ret,
                    Ret("validate_output", validate_output_raises(lib_args.p, lib_args.s),
                        validate_output(lib_args.p, lib_args.s)))
    /\ UNCHANGED <<lib_args, lib_pc, pipelineVars>>

\* get_prompt_template(s)
CallGetPromptTemplate ==
    /\ lib_pc = "start"
    /\ lib_ret # <<>>
    /\ LET r == get_prompt_template(lib_args.s)
       IN lib_ret' = Append(lib_ret,
                        Ret("get_prompt_template",
                            IF r.ok THEN "none" ELSE "ValueError", PyStr(r.val)))
    /\ lib_pc' = "template"
    /\ UNCHANGED <<lib_args, pipelineVars>>

\* get_schema_model(s)
CallGetSchemaModel ==
    /\ lib_pc = "template"
    /\ LET r == get_schema_model(lib_args.s)
       IN lib_ret' = Append(lib_ret,
                        Ret("get_schema_model",
                            IF r.ok THEN "none" ELSE "ValueError",
                            IF r.val = None THEN None ELSE JList(r.val)))
    /\ lib_pc' = "model"
    /\ UNCHANGED <<lib_args, pipelineVars>>

NextSchemas ==
    \/ CallValidateOutput
    \/ CallGetPromptTemplate
    \/ CallGetSchemaModel

SpecSchemas == InitSchemas /\ [][NextSchemas]_vars

(***************************************************************************)
(* SpecChunk: main --index up to the chunks (main lines 26-29), run on     *)
(* the same knowledge base under one chunking configuration, once or       *)
(* again.                                                                  *)
(***************************************************************************)
MaxChunkSize == 3
MaxContentLen == 4

Chars == {"a", " ", "\n"}

\* a document as load_kb_directory builds it
KbDoc(content) == [id |-> <<"kb">>, source |-> <<"kb.txt">>, content |-> content]

\* a document handed over without id and source
BareDoc == [content |-> <<"a", "a", " ", "a">>]

\* the document load_kb_directory builds from kb.json beside kb.txt
KbDocJson(content) == [id |-> <<"kb">>, source |-> <<"kb.json">>, content |-> content]

KnowledgeBases ==
    {<<>>}
    \cup {<<KbDoc(c)>> : c \in SeqsUpTo(Chars, MaxContentLen)}
    \cup {<<KbDoc(c), BareDoc>> : c \in SeqsUpTo(Chars, 2)}
    \cup {<<KbDoc(c), KbDocJson(<<"a">>)>> : c \in SeqsUpTo(Chars, 1) \ {<<>>}}

InitChunk ==
    /\ lib_args \in {[CHUNK_SIZE |-> s, CHUNK_OVERLAP |-> o, documents |-> d] :
                        s \in 1..MaxChunkSize, o \in 0..(MaxChunkSize + 1),
                        d \in KnowledgeBases}
    /\ lib_pc = "start"
    /\ lib_ret = <<>>
    /\ InitIdle

\* main line 29: chunk_documents(documents), at most MaxRepeats times
ChunkDocuments ==
    /\ lib_pc \in {"start", "chunked"}
    /\ Len(lib_ret) < MaxRepeats
    /\ LET r == chunk_documents(lib_args.documents, lib_args.CHUNK_SIZE,
                                lib_args.CHUNK_OVERLAP)
       IN /\ lib_ret' = Append(lib_ret, r)
          /\ lib_pc' = IF r.raised = "none" THEN "chunked" ELSE "crashed"
    /\ UNCHANGED <<lib_args, pipelineVars>>

NextChunk == ChunkDocuments

SpecChunk == InitChunk /\ [][NextChunk]_vars

(***************************************************************************)
(* The aggregators of metrics.py called on batches of the records run_rag  *)
(* and run_direct return, as evaluate.py does with the records of a run.   *)
(***************************************************************************)
MaxBatch == 2

\* a payload of the right shape whose context_coverage is outside its enum
OffScalePayload ==
    JDict(<< KV("answer", S("x")), KV("confidence", S("high")),
             KV("evidence_used", JList(<<>>)), KV("context_coverage", S("certain")),
             KV("answer_status", S("answered")) >>)

\* a payload whose confidence is a list
ListedConfidencePayload ==
    JDict(<< KV("answer", S("x")), KV("confidence", JList(<<S("high")>>)),
             KV("context_coverage", S("low")) >>)

\* what llm.invoke may do in the runs whose records are aggregated
MetricOutcomes ==
    {[raised |-> TRUE, msg |-> <<"connection refused">>, content |-> <<>>]}
    \cup {[raised |-> FALSE, msg |-> <<>>, content |-> c] :
            c \in {json_dumps(ValidPayload(S("rag"))), json_dumps(BadEnumPayload),
                   json_dumps(OffScalePayload), json_dumps(ListedConfidencePayload),
                   <<"1">>, <<"[", "\"", "x", "\"", "]">>, <<"null">>, Prose}}

\* the record a run returns when its generation stage does o and the run
\* takes latency ticks: the generate, parse, validate and finalize steps of
\* run_rag (lines 67-90) and run_direct (lines 114-135) on the record rec0
ReturnedFrom(rec0, fn, o, latency) ==
    LET r == ParseStage(o.content)
        rec == IF o.raised
               THEN Raised(rec0, fn, "ConnectionError", o.msg, FALSE).result
               ELSE IF r.ok
               THEN Validated([rec0 EXCEPT !.result = r.val], rec0.schema_type)
               ELSE Raised(rec0, fn, "JSONDecodeError", <<"Expecting value">>,
                           TRUE).result
    IN [rec EXCEPT !.latency_s = latency]

\* the record run_rag or run_direct returns for a request on an agent that
\* has run nothing before, when the search does found and the generation does
\* o (run_rag lines 27-90, run_direct lines 99-135), its latency left at 0
RecordAlone(fn, query, schema_type, found, o) ==
    LET docs == retrieve_documents(found).docs
        rec0 == IF fn = "run_rag"
                THEN [NewRagRecord(query, schema_type, TRUE)
                         EXCEPT !.context_used = ContextUsed(docs)]
                ELSE NewDirectRecord(query, schema_type)
        tpl == get_prompt_template(schema_type)
    IN IF ~tpl.ok
       THEN Raised(rec0, fn, "ValueError", tpl.err.x, FALSE).result
       ELSE ReturnedFrom(rec0, fn, o, 0)

ReturnedRecords ==
    {ReturnedFrom(NewRagRecord(Question, S("rag"), TRUE), "run_rag", o, 1) :
        o \in MetricOutcomes}
    \cup {ReturnedFrom(NewDirectRecord(Question, S("rag")), "run_direct", o, 2) :
            o \in MetricOutcomes}

InitMetrics ==
    /\ lib_args \in SeqsUpTo(ReturnedRecords, MaxBatch)
    /\ lib_pc = "start"
    /\ lib_ret = <<>>
    /\ InitIdle

\* schema_pass_rate(results)
CallSchemaPassRate ==
    /\ lib_pc = "start"
    /\ \A i \in 1..Len(lib_ret) : lib_ret[i].fn # "schema_pass_rate"
    /\ LET r == schema_pass_rate(lib_args)
       IN lib_ret' = Append(lib_ret, Ret("schema_pass_rate", r.raised, r.val))
    /\ UNCHANGED <<lib_args, lib_pc, pipelineVars>>

\* latency_stats(results)
CallLatencyStats ==
    /\ lib_pc = "start"
    /\ \A i \in 1..Len(lib_ret) : lib_ret[i].fn # "latency_stats"
    /\ LET r == latency_stats(lib_args)
       IN lib_ret' = Append(lib_ret, Ret("latency_stats", r.raised, r.val))
    /\ UNCHANGED <<lib_args, lib_pc, pipelineVars>>

\* run_evaluation line 25: generate_json_metrics(results)
GenerateJsonMetrics ==
    /\ lib_pc = "start"
    /\ LET r == generate_json_metrics(lib_args)
       IN /\ lib_ret' = Append(lib_ret, Ret("generate_json_metrics", r.raised, r.val))
          /\ lib_pc' = IF r.raised = "none" THEN "reported" ELSE "crashed"
    /\ UNCHANGED <<lib_args, pipelineVars>>

NextMetrics ==
    \/ CallSchemaPassRate
    \/ CallLatencyStats
    \/ GenerateJsonMetrics

SpecMetrics == InitMetrics /\ [][NextMetrics]_vars

(***************************************************************************)
(* Properties                                                              *)
(***************************************************************************)
Did(op) == \E i \in 1..Len(calls) : calls[i].op = op
DidWith(op, ok) == \E i \in 1..Len(calls) : calls[i].op = op /\ calls[i].ok = ok
Count(op) == Cardinality({i \in 1..Len(calls) : calls[i].op = op})

\* the run has reached its last lines or has returned its record
Finishing == run_pc \in {"finalize", "returned"}

\* the payload the parse stage decodes from the response of the running request
Decoded == json_loads(ExtractJson(frame.response_text))

\* C1: in every run (run_rag or run_direct) whose generation call raised, the
\* record has an error string, result None and valid_output False, and
\* neither json.loads nor validate_output was called for the request.
C1_GenerationFailureRecorded ==
    (Finishing /\ DidWith("llm.invoke", FALSE)) =>
        /\ frame.result.error # None
        /\ frame.result.error.t = "str"
        /\ frame.result.result = None
        /\ frame.result.valid_output = FALSE
        /\ ~Did("json.loads")
        /\ ~Did("validate_output")

C1_Witness ==
    /\ run_pc = "returned"
    /\ DidWith("llm.invoke", FALSE)
    /\ frame.fn = "run_rag"
    /\ frame.result.context_used # <<>>

\* C2: in every run whose response does not decode (json.loads raises on the
\* text left by the parse stage, as for plain prose), the exception does not
\* leave the run, the record has result None, valid_output False and the
\* parse error message, and validate_output was not called.
C2_ParseFailureRecorded ==
    (run_pc \in {"finalize", "returned", "escaped"} /\ DidWith("json.loads", FALSE)) =>
        /\ run_pc # "escaped"
        /\ frame.result.result = None
        /\ frame.result.valid_output = FALSE
        /\ frame.result.error = ParseErrorMessage(frame.fn)
        /\ ~Did("validate_output")

C2_Witness ==
    /\ run_pc = "returned"
    /\ DidWith("json.loads", FALSE)
    /\ frame.response_text = Prose
    /\ frame.result.latency_s > 0

\* C3: in every run whose response decodes and whose payload the validator
\* rejects, the record keeps the decoded payload in result, has valid_output
\* False and error None.
C3_ValidationFailureKeepsPayload ==
    (Finishing /\ Did("validate_output")
        /\ ~validate_output(Decoded.val, frame.schema_type)) =>
        /\ frame.result.result = Decoded.val
        /\ frame.result.valid_output = FALSE
        /\ frame.result.error = None

C3_Witness ==
    /\ run_pc = "returned"
    /\ Did("validate_output")
    /\ frame.result.result = BadEnumPayload
    /\ frame.result.valid_output = FALSE

\* the similarity search of the running request raised or found nothing
SearchCameBackEmpty ==
    \E i \in 1..Len(calls) :
        calls[i].op = "similarity_search" /\ (~calls[i].ok \/ calls[i].n = 0)

\* C4: in run_rag, when the similarity search raises or returns no match,
\* nothing propagates and the context is empty; for a registered schema the
\* run then makes exactly one generation call, and the record's error is set
\* only by a failing generation or a failing parse, never by the retrieval.
C4_EmptyRetrievalContinues ==
    (frame.fn = "run_rag" /\ SearchCameBackEmpty) =>
        /\ run_pc # "escaped"
        /\ frame.context_docs = <<>>
        /\ frame.result.context_used = <<>>
        /\ frame.schema_type \in TemplateNames =>
              /\ run_pc \in {"assemble", "generate"} => frame.result.error = None
              /\ run_pc \in {"parse", "validate", "finalize", "returned"} =>
                    Count("llm.invoke") = 1
              /\ frame.result.error # None =>
                    DidWith("llm.invoke", FALSE) \/ DidWith("json.loads", FALSE)

C4_Witness ==
    /\ run_pc = "returned"
    /\ frame.fn = "run_rag"
    /\ DidWith("similarity_search", FALSE)
    /\ Count("llm.invoke") = 1
    /\ frame.result.valid_output = TRUE

\* C5: the batch loop appends one record per task, in task order, whatever
\* fails inside a request (retrieval, generation, parse, validation, unknown
\* schema name); no exception leaves a request, so every task is processed.
C5_BatchYieldsOneRecordPerTask ==
    /\ run_pc # "escaped"
    /\ main_pc \in {"csv_loop", "csv_call"} => Len(results) = idx - 1
    /\ main_pc \in {"done", "crashed"} => Len(results) = Len(csv_rows)
    /\ \A j \in 1..Len(results) :
          /\ results[j]["task_id"] = csv_rows[j]["task_id"]
          /\ results[j]["schema_type"] = DictGet(csv_rows[j], "task_type", None)

C5_Witness ==
    /\ main_pc \in {"done", "crashed"}
    /\ Len(results) = 2
    /\ results[1]["schema_type"] = S("bogus")
    /\ results[1]["error"] # None
    /\ results[2]["valid_output"] = TRUE

\* C6: after a batch of N >= 1 tasks the tabular export ends without error
\* and holds one row per record with the record's task_id, task_type,
\* result_json and latency_s.
C6_ExportWritesEveryRecord ==
    (main_pc \in {"done", "crashed"} /\ Len(csv_rows) >= 1) =>
        /\ exc = None
        /\ out_file.kind = "csv"
        /\ Len(out_file.rows) = Len(results)
        /\ \A j \in 1..Len(results) : out_file.rows[j] = CsvRow(results[j])

\* C7: a request with an unregistered schema name calls neither the
\* retrieval capability nor the generation capability.
C7_UnknownSchemaCallsNothing ==
    (frame.fn # "none" /\ frame.schema_type \notin TemplateNames) =>
        /\ ~Did("similarity_search")
        /\ ~Did("llm.invoke")

\* the suffix run_rag appends to the template
QuerySuffix == <<"\n", "\n", "QUERY: ">> \o Str(frame.query)

EndsWith(s, p) == Len(s) >= Len(p) /\ SubSeq(s, Len(s) - Len(p) + 1, Len(s)) = p

\* C8: in run_rag with a retrieved chunk of non-empty content, the prompt
\* holds the chunks' full contents joined by newlines, then the query.
C8_PromptCarriesContext ==
    (frame.fn = "run_rag" /\ frame.full_prompt # <<>>
        /\ \E j \in 1..Len(frame.context_docs) : frame.context_docs[j].content # <<>>) =>
        /\ Contains(frame.full_prompt, ContextText(frame.context_docs))
        /\ EndsWith(frame.full_prompt, QuerySuffix)

\* C9: in run_direct, or in run_rag without context, the prompt is the
\* template with the query (or the input object) appended, and holds no
\* context section and no context placeholder, for every registered schema.
C9_PromptWithoutContextSection ==
    (frame.full_prompt # <<>>
        /\ (frame.fn = "run_direct" \/ ContextText(frame.context_docs) = <<>>)) =>
        /\ StartsWith(frame.full_prompt, get_prompt_template(frame.schema_type).val)
        /\ ~Contains(frame.full_prompt, <<"CONTEXT:">>)
        /\ ~Contains(frame.full_prompt, <<"{", "context", "}">>)

\* C10: every entry the retriever returns, hence every entry of context_used,
\* has a score that meets MIN_SIMILARITY_SCORE.
C10_ContextMeetsThreshold ==
    frame.fn = "run_rag" =>
        /\ \A j \in 1..Len(frame.context_docs) :
              frame.context_docs[j].score >= MIN_SIMILARITY_SCORE
        /\ \A j \in 1..Len(frame.result.context_used) :
              frame.result.context_used[j].score >= MIN_SIMILARITY_SCORE

\* C11: the parse stage applied to the serialization of a JSON value, bare
\* or wrapped in a json fence (with or without whitespace around it),
\* decodes and yields that value.
C11_ParseRoundTrip ==
    lib_pc = "parsed" =>
        /\ lib_ret[1].ok
        /\ lib_ret[1].val = lib_args.obj

C11_Witness ==
    /\ lib_pc = "parsed"
    /\ lib_args.layout = "fenced"
    /\ lib_args.obj.t = "dict"
    /\ Len(lib_args.obj.m) = 2
    /\ lib_args.obj.m[1].k = <<"\"", "k">>
    /\ lib_ret[1].val = lib_args.obj

\* the calls of fn made so far
RetsOf(fn) == SelectSeq(lib_ret, LAMBDA r : r.fn = fn)

\* C12: validate_output never raises, whatever the payload (a list, a
\* number, a string, null or an object) and the schema name; it returns a
\* boolean, the same one on every repeated call, and False for every name
\* that is not registered.
C12_ValidateNeverRaises ==
    \A i \in 1..Len(RetsOf("validate_output")) :
        LET r == RetsOf("validate_output")[i]
        IN /\ r.raised = "none"
           /\ r.val \in BOOLEAN
           /\ r.val = RetsOf("validate_output")[1].val
           /\ lib_args.s \notin SCHEMA_MODELS => r.val = FALSE

C12_Witness ==
    /\ Len(RetsOf("validate_output")) = 2
    /\ lib_args.s = S("rag")
    /\ lib_args.p = JList(<<S("answer")>>)
    /\ RetsOf("validate_output")[2].val = FALSE

\* C13 as stated: for a registered schema validate_output returns True
\* exactly when the payload is inside the contract (every required field
\* present, every enum field in its value set, every field correctly typed),
\* whatever the order of the fields and whatever unknown fields it carries.
C13_ValidExactlyWhenConforming ==
    lib_args.s \in SCHEMA_MODELS =>
        \A i \in 1..Len(RetsOf("validate_output")) :
            RetsOf("validate_output")[i].val = (lib_args.change \in Harmless)

\* C13 as amended: for a registered schema validate_output returns True
\* exactly when the payload is an object with every required field present
\* and every declared field it carries accepted for its declared type, where
\* a number field also accepts a string that reads as a number; the order of
\* the fields and unknown fields do not matter; a missing required field, an
\* enum value outside its set or an ill-typed container gives False.
C13_ValidExactlyWhenAccepted ==
    lib_args.s \in SCHEMA_MODELS =>
        \A i \in 1..Len(RetsOf("validate_output")) :
            RetsOf("validate_output")[i].val =
                (lib_args.change \in Harmless \cup {"numeric str for number"})

C13_Witness ==
    /\ lib_args.s = S("classification")
    /\ lib_args.change = "numeric str for number"
    /\ Get(lib_args.p.m, <<"confidence_scores">>) = JDict(<<KV("positive", S("1"))>>)
    /\ RetsOf("validate_output") # <<>>
    /\ RetsOf("validate_output")[1].val = TRUE

\* the names list_available_schemas() returns
Listed == {PyStr(list_available_schemas[i]) : i \in 1..Len(list_available_schemas)}

\* C14: the template lookup and the validator-model lookup succeed exactly
\* for the listed names: a listed name has a non-empty template and a model,
\* and a name that is not registered makes either lookup fail with an error
\* instead of returning a value.
C14_LookupSucceedsExactlyForRegistered ==
    \A i \in 1..Len(lib_ret) :
        lib_ret[i].fn \in {"get_prompt_template", "get_schema_model"} =>
            IF lib_args.s \in Listed
            THEN /\ lib_ret[i].raised = "none"
                 /\ lib_ret[i].val # None
                 /\ lib_ret[i].val \notin {PyStr(<<>>), JList(<<>>)}
            ELSE lib_ret[i].raised # "none"

\* the chunks a run produced from the document doc
ChunksFrom(run, doc) ==
    SelectSeq(run.chunks, LAMBDA c : c.source = DictGet(doc, "source", <<"unknown">>))

\* the ids a run produced, in output order
IdsOf(run) == [i \in 1..Len(run.chunks) |-> run.chunks[i].id]

\* C15: the chunks of one document carry chunk_index 0, 1, 2, ... in output
\* order and the id <doc_id>_<chunk_index>, so their ids differ pairwise;
\* chunking the same input again gives the same sequence of ids.
C15_ChunkIdsCountFromZero ==
    \A r \in 1..Len(lib_ret) :
        /\ IdsOf(lib_ret[r]) = IdsOf(lib_ret[1])
        /\ \A d \in 1..Len(lib_args.documents) :
              LET cs == ChunksFrom(lib_ret[r], lib_args.documents[d])
              IN /\ \A i \in 1..Len(cs) :
                       /\ cs[i].chunk_index = i - 1
                       /\ cs[i].id = DictGet(lib_args.documents[d], "id", <<"unknown">>)
                                       \o <<"_", ToString(i - 1)>>
                 /\ \A i, j \in 1..Len(cs) : i # j => cs[i].id # cs[j].id

C15_Witness ==
    /\ Len(lib_ret) = 2
    /\ Len(lib_args.documents) = 2
    /\ Len(ChunksFrom(lib_ret[2], lib_args.documents[1])) = 2
    /\ Len(ChunksFrom(lib_ret[2], lib_args.documents[2])) = 4
    /\ lib_ret[2].chunks[6].id = <<"unknown", "_", "3">>

\* C16 as stated: a document whose content is longer than CHUNK_SIZE gives
\* more than one chunk, and no chunk is longer than CHUNK_SIZE.
C16_LongDocumentSplits ==
    \A r \in 1..Len(lib_ret) :
        lib_ret[r].raised = "none" =>
            /\ \A d \in 1..Len(lib_args.documents) :
                  Len(lib_args.documents[d].content) > lib_args.CHUNK_SIZE =>
                      Len(ChunksFrom(lib_ret[r], lib_args.documents[d])) > 1
            /\ \A i \in 1..Len(lib_ret[r].chunks) :
                  Len(lib_ret[r].chunks[i].content) <= lib_args.CHUNK_SIZE

\* C16 as amended: a document whose content, without its leading and
\* trailing whitespace, is longer than CHUNK_SIZE gives more than one chunk,
\* and no chunk is longer than CHUNK_SIZE.
C16_LongTextSplits ==
    \A r \in 1..Len(lib_ret) :
        lib_ret[r].raised = "none" =>
            /\ \A d \in 1..Len(lib_args.documents) :
                  Len(Strip(lib_args.documents[d].content)) > lib_args.CHUNK_SIZE =>
                      Len(ChunksFrom(lib_ret[r], lib_args.documents[d])) > 1
            /\ \A i \in 1..Len(lib_ret[r].chunks) :
                  Len(lib_ret[r].chunks[i].content) <= lib_args.CHUNK_SIZE

C16_Witness ==
    /\ lib_ret # <<>>
    /\ lib_ret[1].raised = "none"
    /\ lib_args.CHUNK_SIZE = 3
    /\ lib_args.CHUNK_OVERLAP = 1
    /\ Len(lib_args.documents) = 1
    /\ lib_args.documents[1].content = <<"a", "a", "a", "a">>
    /\ Len(lib_ret[1].chunks) = 2
    /\ lib_ret[1].chunks[1].content = <<"a", "a", "a">>

\* C17 as stated: a document whose content is no longer than CHUNK_SIZE
\* gives exactly one chunk, and that chunk is the content.
C17_ShortDocumentIsOneChunk ==
    \A r \in 1..Len(lib_ret) :
        lib_ret[r].raised = "none" =>
            \A d \in 1..Len(lib_args.documents) :
                Len(lib_args.documents[d].content) <= lib_args.CHUNK_SIZE =>
                    LET cs == ChunksFrom(lib_ret[r], lib_args.documents[d])
                    IN Len(cs) = 1 /\ cs[1].content = lib_args.documents[d].content

\* C17 as amended: a document whose content is not empty, neither starts nor
\* ends with whitespace and is no longer than CHUNK_SIZE gives exactly one
\* chunk, and that chunk is the content.
C17_ShortTextIsOneChunk ==
    \A r \in 1..Len(lib_ret) :
        lib_ret[r].raised = "none" =>
            \A d \in 1..Len(lib_args.documents) :
                LET content == lib_args.documents[d].content
                IN (content # <<>> /\ Strip(content) = content
                        /\ Len(content) <= lib_args.CHUNK_SIZE) =>
                      LET cs == ChunksFrom(lib_ret[r], lib_args.documents[d])
                      IN Len(cs) = 1 /\ cs[1].content = content

C17_Witness ==
    /\ lib_ret # <<>>
    /\ lib_ret[1].raised = "none"
    /\ lib_args.CHUNK_SIZE = 3
    /\ Len(lib_args.documents) = 1
    /\ lib_args.documents[1].content = <<"a", " ", "a">>
    /\ Len(lib_ret[1].chunks) = 1
    /\ lib_ret[1].chunks[1].content = <<"a", " ", "a">>

\* C18: a configuration with CHUNK_OVERLAP >= CHUNK_SIZE (equal included) is
\* rejected with an error before any document is chunked.
C18_OverlapRejected ==
    lib_args.CHUNK_OVERLAP >= lib_args.CHUNK_SIZE =>
        \A r \in 1..Len(lib_ret) :
            lib_ret[r].raised # "none" /\ lib_ret[r].chunks = <<>>

\* C19: on an empty batch schema_pass_rate returns 0 and latency_stats returns
\* min = max = mean = median = 0; on a non-empty batch schema_pass_rate returns
\* (records with valid_output true) / (records) x 100, a value in [0, 100]
C19_PassRateAndEmptyLatency ==
    /\ \A i \in 1..Len(RetsOf("schema_pass_rate")) :
          LET r == RetsOf("schema_pass_rate")[i]
              valid == Len(SelectSeq(lib_args, LAMBDA x : x.valid_output))
          IN /\ r.raised = "none"
             /\ lib_args = <<>> => r.val.num = 0
             /\ lib_args # <<>> =>
                   /\ r.val.num * Len(lib_args) = valid * 100 * r.val.den
                   /\ 0 <= r.val.num
                   /\ r.val.num <= 100 * r.val.den
    /\ \A i \in 1..Len(RetsOf("latency_stats")) :
          LET r == RetsOf("latency_stats")[i]
          IN lib_args = <<>> =>
                /\ r.raised = "none"
                /\ \A k \in {"min", "max", "mean", "median"} : r.val[k].num = 0

\* both aggregators have returned on the empty batch
C19_Witness ==
    /\ lib_args = <<>>
    /\ RetsOf("schema_pass_rate") # <<>>
    /\ RetsOf("latency_stats") # <<>>
    /\ RetsOf("schema_pass_rate")[1].val = Frac(0, 1)

\* C20: on every batch of records the orchestrator can return, every
\* aggregator the report uses returns a value without raising
C20_AggregationNeverRaises ==
    \A i \in 1..Len(lib_ret) : lib_ret[i].raised = "none"

\* C21: a record returned by run_rag or run_direct has latency_s equal to the
\* time elapsed from the start of the run to its last lines, on every exit
\* path: success, validation failure, parse failure, generation failure and
\* unknown schema name
C21_LatencyIsElapsedTime ==
    /\ run_pc # "escaped"
    /\ run_pc = "returned" => frame.result.latency_s = now - frame.start_time

\* the second request of a batch, a run_rag with an unregistered schema
\* name, has returned after a retrieval that took time
C21_Witness ==
    /\ run_pc = "returned"
    /\ frame.fn = "run_rag"
    /\ frame.start_time > 0
    /\ frame.schema_type \notin TemplateNames
    /\ frame.result.error # None
    /\ frame.result.latency_s = 1

\* the fields of a ResultRecord
RecordFields ==
    {"query", "schema_type", "mode", "result", "context_used", "valid_output",
     "latency_s", "error"}

\* C22: every record the orchestrator returns, through the rag path or the
\* direct path of run_and_validate, carries all fields of a ResultRecord
C22_RecordCarriesAllFields ==
    run_pc = "returned" => RecordFields \subseteq DOMAIN frame.result

\* C23: once a run has returned its record, no later step of the program
\* (batch loop, export) adds, removes or changes a field of it: the record
\* is appended as returned and the records already appended stay as they are
C23_ReturnedRecordUntouched ==
    [][/\ \A j \in 1..Len(results) : j <= Len(results') /\ results'[j] = results[j]
       /\ Len(results') > Len(results) =>
             /\ Len(results') = Len(results) + 1
             /\ results'[Len(results')] = frame.result]_vars

\* the place of a call in the order of the stages
StageRank(op) ==
    CASE op = "similarity_search" -> 1
      [] op = "get_prompt_template" -> 2
      [] op = "llm.invoke" -> 3
      [] op = "json.loads" -> 4
      [] op = "validate_output" -> 5

\* C24: within one run the stages execute in the order retrieve (rag only),
\* assemble, generate, parse, validate, each at most once; parse only after
\* generation returned, validate only after parse succeeded; and no exception
\* leaves the run
C24_StagesInOrderAtMostOnce ==
    /\ run_pc # "escaped"
    /\ \A i, j \in 1..Len(calls) :
          i < j => StageRank(calls[i].op) < StageRank(calls[j].op)
    /\ (run_pc # "idle" /\ Did("similarity_search")) => frame.fn = "run_rag"
    /\ Did("llm.invoke") => DidWith("get_prompt_template", TRUE)
    /\ Did("json.loads") => DidWith("llm.invoke", TRUE)
    /\ Did("validate_output") => DidWith("json.loads", TRUE)
    /\ run_pc = "returned" => Did("get_prompt_template")

\* a run_rag request has gone through all five stages and returned
C24_Witness ==
    /\ run_pc = "returned"
    /\ [i \in 1..Len(calls) |-> calls[i].op] =
          <<"similarity_search", "get_prompt_template", "llm.invoke", "json.loads",
            "validate_output">>
    /\ \A i \in 1..Len(calls) : calls[i].ok

\* C25: the parse step removes a leading fence marker only if one is present
\* and a trailing one only if one is present, and nothing else: a response
\* made of a leading fence marker and valid JSON, with no closing fence,
\* decodes to that JSON
C25_UnclosedFenceStillDecodes ==
    \A p \in AllPayloadTexts, f \in {Fence, FenceJson} :
        (/\ Did("json.loads")
         /\ frame.response_text = f \o <<"\n">> \o p
         /\ json_loads(p).ok) =>
            /\ DidWith("json.loads", TRUE)
            /\ frame.result.result = json_loads(p).val

\* C26: in a rag-mode record context_used has one entry per retrieved
\* document, in retrieval order, each holding the first 200 characters of
\* the document's content (never more), while the context text built for
\* the prompt holds each document's content whole
C26_PreviewTruncatedContextWhole ==
    (frame.fn = "run_rag" /\ run_pc # "retrieve") =>
        /\ Len(frame.result.context_used) = Len(frame.context_docs)
        /\ \A j \in 1..Len(frame.context_docs) :
              LET preview == frame.result.context_used[j].content
                  whole == frame.context_docs[j].content
              IN /\ Len(preview) <= PREVIEW_LEN
                 /\ Len(preview) = Min(Len(whole), PREVIEW_LEN)
                 /\ \A k \in 1..Len(preview) : preview[k] = whole[k]
                 /\ frame.result.context_used[j].score = frame.context_docs[j].score
                 /\ run_pc \notin {"assemble", "idle"} =>
                       \E i \in 0..(Len(frame.context_text) - Len(whole)) :
                          SubSeq(frame.context_text, i + 1, i + Len(whole)) = whole

\* a returned record whose preview is cut at 200 characters while the
\* context text holds the 201 characters of the document
C26_Witness ==
    /\ run_pc = "returned"
    /\ Len(frame.context_docs) = 2
    /\ Len(frame.context_docs[2].content) = PREVIEW_LEN + 1
    /\ Len(frame.result.context_used[2].content) = PREVIEW_LEN
    /\ Len(frame.context_text) > PREVIEW_LEN + 1

\* record r without the task id of the batch loop and without its latency
Bare(r) == [k \in DOMAIN r \ {"task_id"} |-> IF k = "latency_s" THEN 0 ELSE r[k]]

\* C27: requests of a batch are independent: whatever requests ran before it
\* on the same agent, the record of a request is one that the same request
\* gets on an agent that has run nothing, for some answer of the retrieval
\* and generation capabilities
C27_RecordIndependentOfBatch ==
    \A j \in 1..Len(results) :
        Bare(results[j]) \in
            {RecordAlone(IF args.no_rag THEN "run_direct" ELSE "run_rag",
                         DictGet(tasks[j], "input_text", None),
                         DictGet(tasks[j], "task_type", args.schema), found, o) :
                found \in FewSearchOutcomes, o \in FewLlmOutcomes}

\* a request that failed to parse is followed by one that succeeded
C27_Witness ==
    /\ Len(results) = 2
    /\ results[1]["error"] = ParseErrorMessage("run_rag")
    /\ results[2]["valid_output"] = TRUE
    /\ results[2]["error"] = None
    /\ results[2]["context_used"] # <<>>

\* C28: in a CSV batch the query handed to the pipeline for a task is the
\* row's input_text and the schema is the row's task_type, or the --schema
\* argument when the row has no task_type; the record's query is the row's
\* input_text
C28_BatchQueryIsInputText ==
    /\ (main_pc = "csv_call" /\ frame.fn # "none") =>
          /\ frame.query = csv_rows[idx]["input_text"]
          /\ frame.schema_type = DictGet(csv_rows[idx], "task_type", args.schema)
    /\ \A j \in 1..Len(results) :
          /\ results[j]["query"] = csv_rows[j]["input_text"]
          /\ results[j]["schema_type"] =
                DictGet(csv_rows[j], "task_type", args.schema)

\* C29: in one indexing run the chunk ids handed to the vector store are
\* pairwise distinct across all documents, also when two files have the
\* same stem or a document has no id
C29_ChunkIdsDistinct ==
    \A i \in 1..Len(lib_ret) :
        lib_ret[i].raised = "none" =>
            \A a, b \in 1..Len(lib_ret[i].chunks) :
                a # b => lib_ret[i].chunks[a].id # lib_ret[i].chunks[b].id

\* C30: in every record returned by run_rag or run_direct valid_output true
\* implies a non-null result and a null error, and a null result implies a
\* non-null error, whatever the model answered (JSON null included)
C30_MissingResultHasError ==
    run_pc = "returned" =>
        /\ frame.result.valid_output =>
              (frame.result.result # None /\ frame.result.error = None)
        /\ frame.result.result = None => frame.result.error # None

====
